---- MODULE Spec2Model ----
(***************************************************************************)
(* Zone-occupancy pipeline of cctv-worker.                                 *)
(*                                                                         *)
(*   ChannelWorker    src/cctv-worker/src/workers/detection_worker.py      *)
(*   MultiChannelWorker                          (the same file)           *)
(*   DetectionLogger  src/cctv-worker/src/utils/detection_logger.py        *)
(*   RTSPClient       src/cctv-worker/src/utils/rtsp_client.py             *)
(*   SeatRepository   src/cctv-worker/src/database/seat_repository.py      *)
(*   ROIMatcher       src/cctv-worker/src/core/roi_matcher.py              *)
(*                                                                         *)
(* The worker reads its seats through SupabaseClient.get_seats, not        *)
(* through SeatRepository, and never reads the state of its                *)
(* DetectionLogger, so the components have their own specifications over   *)
(* the common variable tuple:                                              *)
(*   Spec            the worker as coded (belongings_detected = False),    *)
(*                   on a stream whose reads do not fail                   *)
(*   SpecBelongings  the worker with a belongings signal fed to line 184,  *)
(*                   one seat                                              *)
(*   SpecStream      the worker on a stream whose reads can fail           *)
(*   SpecRun         the worker together with its DetectionLogger          *)
(*   SpecLogger      DetectionLogger called directly                       *)
(*   SpecAccounting  DetectionLogger with flush() between the calls        *)
(*   SpecRepo        SeatRepository.get_seats_by_channel                   *)
(*   SpecInvalidate  SeatRepository with invalidate_cache                  *)
(*   SpecCallers     SeatRepository called from two threads, the lock      *)
(*                   taken and released step by step                       *)
(*   SpecMatcher     ROIMatcher.check_occupancy on given detections        *)
(*   SpecConnector   RTSPClient called directly                            *)
(*   SpecSupervisor  two workers under MultiChannelWorker (wait, stop)     *)
(*   SpecShutdown    the worker with its DetectionLogger under stop(),     *)
(*                   the worker process weakly fair                        *)
(***************************************************************************)
EXTENDS Integers, Sequences, FiniteSets, TLC

VARIABLES
    \* ---- ChannelWorker -------------------------------------------------
    wpc,                 \* position of run(): "start", "connect", "loop", "frame",
                         \* "reconnect", "done" (the try block left), "stopped",
                         \* "killed" (process ended by SIGTERM)
    now,                 \* datetime.now(), whole seconds
    time_limit,          \* the last value of now the model explores
    seat_db,             \* seat_status table: seat id -> row
    channel_seats,       \* active seats of the channel, as get_seats returns them
    roi_polygon,         \* whether the seat's roi_polygon is non-empty
    is_connected,        \* RTSPClient.is_connected
    stream_lossy,        \* whether reads of the connected stream can fail
    belongings_wired,    \* whether a belongings signal feeds line 184
    roi_seats,           \* roi_config['seats'] held by the matcher
    previous_occupancy,  \* self.previous_occupancy
    abandoned_timers,    \* self.abandoned_timers
    occupancy,           \* result of check_occupancy for the current frame
    seat_idx,            \* index of the for loop of process_frame
    error_count,         \* error_count of run()
    \* ---- observations of the worker's calls (history) ------------------
    step,                \* what the latest iteration of the seat loop did
    fed,                 \* matcher status of the seat's latest completed iteration
    last_update,         \* status_update of the seat's latest completed iteration
    obj_run,             \* iterations in a row that saw object and no person
    cycle,               \* what the latest pass of the main loop came to
    detect_failed_run,   \* passes in a row that ended with the detector raising
    exit_from,           \* the position at which run() left its try block
    none_run,            \* captures in a row that returned None
    chain,               \* per seat, the status the latest status-change event
                         \* led to, or the seeded status before the first one
    \* ---- SeatRepository ------------------------------------------------
    clock,               \* time.time()
    cache,               \* SeatRepository._cache
    snapshot,            \* fallback JSON files
    backend,             \* seats table as the query of line 71 would return it
    rpc,                 \* position of get_seats_by_channel
    call,                \* locals and observations of the call in progress
    queried,             \* the cache keys the callers of the run ask for
    inval,               \* what the latest step did, if it was invalidate_cache
    callers,             \* threads calling the repository: position and locals
    cache_lock,          \* SeatRepository._cache_lock: "none" or the holder
    races,               \* order of the queries and invalidations (history)
    \* ---- DetectionLogger ------------------------------------------------
    detection_logger,    \* _batch, _last_flush, stats, enable_frame_logging
    detection_events,    \* detection_events table: event -> rows written for it
    built,               \* events built so far by _build_event, per kind
    queued,              \* frame events queued for the seat in the current cycle
    lstep,               \* what the latest call of the logger did (history)
    \* ---- MultiChannelWorker ---------------------------------------------
    stop_event,          \* self.stop_event, shared with every ChannelWorker
    spc,                 \* position of the supervisor: "none", "wait", "join",
                         \* "terminated", "returned" (stop() done), "finished"
    join_idx,            \* index of the for loop of wait() or stop()
    sibling,             \* position of run() in the second worker process
    sup,                 \* what stop() has done so far (history)
    \* ---- ROIMatcher -----------------------------------------------------
    matcher_seats,       \* ROIMatcher.seats
    detections,          \* the detector's output handed to check_occupancy
    results,             \* what check_occupancy returned
    matched,             \* whether check_occupancy has been called
    \* ---- RTSPClient -----------------------------------------------------
    cap,                 \* RTSPClient.cap
    handles,             \* opened captures not yet released
    conn                 \* the latest call of the client and the one before (history)

wvars == <<wpc, now, time_limit, seat_db, channel_seats, roi_polygon, is_connected,
           stream_lossy, belongings_wired, roi_seats,
           previous_occupancy, abandoned_timers, occupancy, seat_idx,
           error_count, step, fed, last_update, obj_run, cycle,
           detect_failed_run, exit_from, none_run, chain>>
rvars == <<clock, cache, snapshot, backend, rpc, call, queried, inval,
           callers, cache_lock, races>>
lvars == <<detection_logger, detection_events, built, queued, lstep>>
mvars == <<matcher_seats, detections, results, matched>>
cvars == <<cap, handles, conn>>
svars == <<stop_event, spc, join_idx, sibling, sup>>
xvars == <<stop_event, spc, join_idx, sibling, sup,
           matcher_seats, detections, results, matched,
           cap, handles, conn>>
vars == <<wpc, now, time_limit, seat_db, channel_seats, roi_polygon, is_connected,
          stream_lossy, belongings_wired, roi_seats,
          previous_occupancy, abandoned_timers, occupancy, seat_idx,
          error_count, step, fed, last_update, obj_run, cycle,
          detect_failed_run, exit_from, none_run, chain,
          clock, cache, snapshot, backend, rpc, call, queried, inval,
          callers, cache_lock, races,
          detection_logger, detection_events, built, queued, lstep,
          stop_event, spc, join_idx, sibling, sup,
          matcher_seats, detections, results, matched,
          cap, handles, conn>>

----------------------------------------------------------------------------
(* Bounds *)

MaxTime == 3
MaxTimeBelongings == 1
MaxTimerCycles == 201
MaxLogTime == 6
MaxTimeRun == 1
MaxTimeStream == 1
MaxRunEvents == 6
MaxFrameEvents == 11
MaxStatusEvents == 2
\* flush() calls (SpecAccounting)
MaxFlushes == 1
\* calls of the repository by its threads (SpecCallers)
MaxCalls == 3
MaxDetectFailures == 2
MaxShutdownEvents == 2

(* Program constants *)

snapshot_interval == 3
ABANDONED_THRESHOLD_SECONDS == 600
max_errors == 10
batch_size == 10
flush_interval == 5

None == -1

SeatIds == {"A-01", "A-02"}
Statuses == {"empty", "occupied", "abandoned"}

----------------------------------------------------------------------------
(* seat_status rows *)

NoRecord ==
    [exists |-> FALSE, status |-> "none", last_empty_time |-> None,
     vacant_duration_seconds |-> 0]

Row(status, last_empty_time, vacant_duration) ==
    [exists |-> TRUE, status |-> status, last_empty_time |-> last_empty_time,
     vacant_duration_seconds |-> vacant_duration]

\* Rows that exist before the worker starts: none, the row the import scripts
\* create, rows a former run of the worker left, and a row whose status was
\* set by another writer to a value outside the three statuses.
InitialRows ==
    { NoRecord,
      Row("empty", None, 0),
      Row("empty", 0, 0),
      Row("occupied", None, 0),
      Row("abandoned", None, 0),
      Row("unknown", None, 0) }

\* previous_occupancy seed: status.get('status', 'empty') or 'empty'
SeedStatus(row) == IF row.exists THEN row.status ELSE "empty"

----------------------------------------------------------------------------
(* State machine of process_frame, one seat *)

CurrentStatus(person_detected) ==
    IF person_detected THEN "occupied" ELSE "empty"

\* a belongings signal fed to line 184 whatever the wiring
BelongingsSignalFed == BOOLEAN

\* line 184: belongings_detected is the constant False unless a signal is wired
BelongingsSignal == IF belongings_wired THEN BOOLEAN ELSE {FALSE}

\* the timer reset by a person only, kept by a cycle that sees nothing
NewTimerKept(timer, person_detected, belongings_detected) ==
    IF ~person_detected /\ belongings_detected
    THEN timer + snapshot_interval
    ELSE IF person_detected THEN 0 ELSE timer

\* lines 214-221
NewTimer(timer, person_detected, belongings_detected) ==
    IF ~person_detected /\ belongings_detected
    THEN timer + snapshot_interval
    ELSE 0

\* the threshold compared with > instead of >=
NewStatusStrict(timer, person_detected, belongings_detected) ==
    IF /\ ~person_detected
       /\ belongings_detected
       /\ NewTimer(timer, person_detected, belongings_detected)
              > ABANDONED_THRESHOLD_SECONDS
    THEN "abandoned"
    ELSE CurrentStatus(person_detected)

NewStatus(timer, person_detected, belongings_detected) ==
    IF /\ ~person_detected
       /\ belongings_detected
       /\ NewTimer(timer, person_detected, belongings_detected)
              >= ABANDONED_THRESHOLD_SECONDS
    THEN "abandoned"
    ELSE CurrentStatus(person_detected)

\* last_empty_time of the status_update
UpdateLastEmptyTime(new_status, db_status, current_time) ==
    IF new_status = "empty"
    THEN IF db_status.exists /\ db_status.last_empty_time # None
         THEN db_status.last_empty_time
         ELSE current_time
    ELSE None

\* the duration computed whatever the new status is
VacantDurationAnyStatus(new_status, db_status, current_time) ==
    IF db_status.exists /\ db_status.last_empty_time # None
    THEN current_time - db_status.last_empty_time
    ELSE 0

\* vacant_duration_seconds of the status_update
VacantDuration(new_status, db_status, current_time) ==
    IF /\ new_status = "empty"
       /\ db_status.exists
       /\ db_status.last_empty_time # None
    THEN current_time - db_status.last_empty_time
    ELSE 0

StatusUpdate(new_status, db_status, current_time) ==
    Row(new_status,
        UpdateLastEmptyTime(new_status, db_status, current_time),
        VacantDuration(new_status, db_status, current_time))

\* the table with the abandoned -> empty row taken for a person leaving
event_type_map_leave(prev_status, new_status) ==
    CASE prev_status = "empty"     /\ new_status = "occupied"  -> "person_enter"
      [] prev_status = "occupied"  /\ new_status = "empty"     -> "person_leave"
      [] prev_status = "empty"     /\ new_status = "abandoned" -> "abandoned_detected"
      [] prev_status = "occupied"  /\ new_status = "abandoned" -> "abandoned_detected"
      [] prev_status = "abandoned" /\ new_status = "occupied"  -> "person_enter"
      [] prev_status = "abandoned" /\ new_status = "empty"     -> "person_leave"
      [] OTHER -> "status_change"

\* the inline table of process_frame
event_type_map(prev_status, new_status) ==
    CASE prev_status = "empty"     /\ new_status = "occupied"  -> "person_enter"
      [] prev_status = "occupied"  /\ new_status = "empty"     -> "person_leave"
      [] prev_status = "empty"     /\ new_status = "abandoned" -> "abandoned_detected"
      [] prev_status = "occupied"  /\ new_status = "abandoned" -> "abandoned_detected"
      [] prev_status = "abandoned" /\ new_status = "occupied"  -> "person_enter"
      [] prev_status = "abandoned" /\ new_status = "empty"     -> "item_removed"
      [] OTHER -> "status_change"

\* constants.EVENT_TYPE_MAP, a partial table: "missing" stands for KeyError
EVENT_TYPE_MAP(prev_status, new_status) ==
    CASE prev_status = "empty"     /\ new_status = "occupied"  -> "person_enter"
      [] prev_status = "occupied"  /\ new_status = "empty"     -> "person_leave"
      [] prev_status = "empty"     /\ new_status = "abandoned" -> "abandoned_detected"
      [] prev_status = "occupied"  /\ new_status = "abandoned" -> "abandoned_detected"
      [] prev_status = "abandoned" /\ new_status = "occupied"  -> "person_enter"
      [] prev_status = "abandoned" /\ new_status = "empty"     -> "item_removed"
      [] OTHER -> "missing"

\* the event logged in every iteration
EmittedEventAlways(prev_status, new_status) ==
    event_type_map(prev_status, new_status)

\* event of one iteration: log_status_change is called only on a change
EmittedEvent(prev_status, new_status) ==
    IF new_status # prev_status
    THEN event_type_map(prev_status, new_status)
    ELSE "none"

----------------------------------------------------------------------------
(* Observations *)

\* status and vacant_duration_seconds of a status_update
NoUpdate == [status |-> "none", vacant_duration_seconds |-> 0]
Written(row) ==
    [status |-> row.status, vacant_duration_seconds |-> row.vacant_duration_seconds]

NoStep ==
    [seat |-> "none", person |-> FALSE, obj |-> FALSE, prev_status |-> "none",
     new_status |-> "none", event |-> "none", update |-> NoRecord,
     before |-> NoUpdate, db_exists |-> FALSE, write_ok |-> FALSE,
     repeat |-> FALSE, timer_before |-> 0, timer |-> 0, run |-> 0, time |-> 0]

SeatSet(seq) == { seq[i] : i \in 1..Len(seq) }

\* the clock after a sleep, in whole seconds; it stops at time_limit
Later == { t \in now..time_limit : t <= now + 1 }

(* DetectionLogger *)

\* the events _build_event can return: frame events go through the batch,
\* status-change events are inserted one by one
FrameEvents == { <<"detection_frame", n>> : n \in 1..MaxFrameEvents }
StatusEvents == { <<"status_change", n>> : n \in 1..MaxStatusEvents }
Events == FrameEvents \cup StatusEvents

Range(seq) == { seq[i] : i \in 1..Len(seq) }

\* DetectionLogger.__init__ at time t
NewLogger(enable_frame_logging, t) ==
    [batch |-> <<>>, last_flush |-> t, total_logged |-> 0, batch_inserts |-> 0,
     errors |-> 0, enable_frame_logging |-> enable_frame_logging]

NoLogStep ==
    [op |-> "none", event |-> <<"none", 0>>, write_ok |-> FALSE, flushed |-> {},
     wrote |-> {}, time |-> 0, before |-> NewLogger(FALSE, 0)]

LoggerInit(frame_logging) ==
    /\ detection_logger \in { NewLogger(e, 0) : e \in frame_logging }
    /\ detection_events = [e \in Events |-> 0]
    /\ built = [detection_frame |-> 0, status_change |-> 0, lost |-> {},
                bulk_ok |-> 0, bulk_failed |-> 0, single_failed |-> 0,
                flush_calls |-> 0]
    /\ queued = [s \in SeatIds |-> 0]
    /\ lstep = NoLogStep

\* the batch kept when the bulk insert fails
FlushBatchRequeues(dl, t, insert_ok) ==
    IF dl.batch = <<>> THEN dl
    ELSE IF insert_ok
    THEN [dl EXCEPT !.batch = <<>>, !.last_flush = t,
                    !.total_logged = @ + Len(dl.batch), !.batch_inserts = @ + 1]
    ELSE [dl EXCEPT !.last_flush = t, !.errors = @ + 1]

\* a bulk insert counted as one event logged
FlushBatchOneLogged(dl, t, insert_ok) ==
    IF dl.batch = <<>> THEN dl
    ELSE IF insert_ok
    THEN [dl EXCEPT !.batch = <<>>, !.last_flush = t,
                    !.total_logged = @ + 1, !.batch_inserts = @ + 1]
    ELSE [dl EXCEPT !.batch = <<>>, !.last_flush = t, !.errors = @ + 1]

\* _flush_batch at time t: the logger after the call (lines 238-255)
FlushBatch(dl, t, insert_ok) ==
    IF dl.batch = <<>> THEN dl
    ELSE IF insert_ok
    THEN [dl EXCEPT !.batch = <<>>, !.last_flush = t,
                    !.total_logged = @ + Len(dl.batch), !.batch_inserts = @ + 1]
    ELSE [dl EXCEPT !.batch = <<>>, !.last_flush = t, !.errors = @ + 1]

\* batch_to_insert of line 243, when the insert of line 249 is reached
Flushed(dl) == Range(dl.batch)

\* the rows the bulk insert of line 249 adds
FlushWrites(dl, insert_ok) == IF insert_ok THEN Flushed(dl) ELSE {}

\* lines 230-233
ShouldFlush(dl, t) ==
    \/ Len(dl.batch) >= batch_size
    \/ t - dl.last_flush >= flush_interval

\* _add_to_batch (lines 224-236), before a flush it may start
Appended(dl, event) == [dl EXCEPT !.batch = Append(@, event)]

\* log_frame_detection: the logger after the call (lines 93-110)
AddToBatch(dl, event, t, insert_ok) ==
    IF ~dl.enable_frame_logging THEN dl
    ELSE IF ShouldFlush(Appended(dl, event), t)
    THEN FlushBatch(Appended(dl, event), t, insert_ok)
    ELSE Appended(dl, event)

AddToBatchFlushed(dl, event, t) ==
    IF dl.enable_frame_logging /\ ShouldFlush(Appended(dl, event), t)
    THEN Flushed(Appended(dl, event))
    ELSE {}

AddToBatchWrites(dl, event, t, insert_ok) ==
    IF insert_ok THEN AddToBatchFlushed(dl, event, t) ELSE {}

\* a status-change event put into the batch
InsertSingleBatched(dl, event, insert_ok) == Appended(dl, event)

\* a failed single insert that is not counted
InsertSingleUncounted(dl, event, insert_ok) ==
    IF insert_ok THEN [dl EXCEPT !.total_logged = @ + 1] ELSE dl

\* _insert_single: the logger after the call (lines 257-264)
InsertSingle(dl, event, insert_ok) ==
    IF insert_ok THEN [dl EXCEPT !.total_logged = @ + 1]
    ELSE [dl EXCEPT !.errors = @ + 1]

InsertSingleWrites(event, insert_ok) == IF insert_ok THEN {event} ELSE {}

\* the table after rows for the given events were inserted
Inserted(table, events) ==
    [e \in Events |-> IF e \in events THEN table[e] + 1 ELSE table[e]]

\* the next event of a kind
Built(kind) == <<kind, built[kind] + 1>>

\* the events a write was attempted for and failed
Lost(events, insert_ok) == IF insert_ok THEN {} ELSE events

\* the bulk insert of the given events, if there are any, told as done or
\* failed
TalliedBulk(b, events, insert_ok) ==
    IF events = {} THEN b
    ELSE IF insert_ok THEN [b EXCEPT !.bulk_ok = @ + 1]
    ELSE [b EXCEPT !.bulk_failed = @ + 1]

\* a failed single insert told
TalliedSingle(b, insert_ok) ==
    IF insert_ok THEN b ELSE [b EXCEPT !.single_failed = @ + 1]

\* get_stats (lines 271-276)
get_stats(dl) ==
    [total_logged |-> dl.total_logged, batch_inserts |-> dl.batch_inserts,
     errors |-> dl.errors, pending_batch |-> Len(dl.batch)]

\* log_frame_detection(...) called at time now
LogFrameDetection ==
    /\ lstep.op # "close"
    /\ built.detection_frame < MaxFrameEvents
    /\ \E insert_ok \in BOOLEAN :
         LET event == Built("detection_frame")
             wrote == AddToBatchWrites(detection_logger, event, now, insert_ok)
         IN /\ detection_logger' = AddToBatch(detection_logger, event, now, insert_ok)
            /\ detection_events' = Inserted(detection_events, wrote)
            /\ built' = IF detection_logger.enable_frame_logging
                        THEN TalliedBulk(
                               [built EXCEPT
                                  !.detection_frame = @ + 1,
                                  !.lost = @ \cup Lost(AddToBatchFlushed(detection_logger,
                                                          event, now), insert_ok)],
                               AddToBatchFlushed(detection_logger, event, now),
                               insert_ok)
                        ELSE built
            /\ lstep' = [op |-> "log_frame_detection", event |-> event,
                         write_ok |-> insert_ok,
                         flushed |-> AddToBatchFlushed(detection_logger, event, now),
                         wrote |-> wrote, time |-> now,
                         before |-> detection_logger]
    /\ UNCHANGED queued
    /\ UNCHANGED wvars
    /\ UNCHANGED rvars
    /\ UNCHANGED detect_failed_run
    /\ UNCHANGED xvars

\* log_status_change(...) called at time now
LogStatusChange ==
    /\ lstep.op # "close"
    /\ built.status_change < MaxStatusEvents
    /\ \E insert_ok \in BOOLEAN :
         LET event == Built("status_change")
             wrote == InsertSingleWrites(event, insert_ok)
         IN /\ detection_logger' = InsertSingle(detection_logger, event, insert_ok)
            /\ detection_events' = Inserted(detection_events, wrote)
            /\ built' = TalliedSingle(
                           [built EXCEPT !.status_change = @ + 1,
                                         !.lost = @ \cup Lost({event}, insert_ok)],
                           insert_ok)
            /\ lstep' = [op |-> "log_status_change", event |-> event,
                         write_ok |-> insert_ok, flushed |-> {},
                         wrote |-> wrote, time |-> now,
                         before |-> detection_logger]
    /\ UNCHANGED queued
    /\ UNCHANGED wvars
    /\ UNCHANGED rvars
    /\ UNCHANGED detect_failed_run
    /\ UNCHANGED xvars

\* close(), which is flush() (lines 266-280); its one caller is the cleanup
\* of the worker, after which the logger is not called again
Close ==
    /\ lstep.op # "close"
    /\ \E insert_ok \in BOOLEAN :
         LET wrote == FlushWrites(detection_logger, insert_ok)
         IN /\ detection_logger' = FlushBatch(detection_logger, now, insert_ok)
            /\ detection_events' = Inserted(detection_events, wrote)
            /\ lstep' = [op |-> "close", event |-> <<"none", 0>>,
                         write_ok |-> insert_ok,
                         flushed |-> Flushed(detection_logger),
                         wrote |-> wrote, time |-> now,
                         before |-> detection_logger]
            /\ built' = TalliedBulk(
                           [built EXCEPT
                              !.lost = @ \cup Lost(Flushed(detection_logger),
                                                   insert_ok)],
                           Flushed(detection_logger), insert_ok)
    /\ UNCHANGED queued
    /\ UNCHANGED wvars
    /\ UNCHANGED rvars
    /\ UNCHANGED detect_failed_run
    /\ UNCHANGED xvars

\* flush() (lines 266-269): the batch is handed to one bulk insert and the
\* logger goes on
Flush ==
    /\ lstep.op # "close"
    /\ \E insert_ok \in BOOLEAN :
         LET wrote == FlushWrites(detection_logger, insert_ok)
         IN /\ detection_logger' = FlushBatch(detection_logger, now, insert_ok)
            /\ detection_events' = Inserted(detection_events, wrote)
            /\ lstep' = [op |-> "flush", event |-> <<"none", 0>>,
                         write_ok |-> insert_ok,
                         flushed |-> Flushed(detection_logger),
                         wrote |-> wrote, time |-> now,
                         before |-> detection_logger]
            /\ built' = TalliedBulk(
                           [built EXCEPT
                              !.flush_calls = @ + 1,
                              !.lost = @ \cup Lost(Flushed(detection_logger),
                                                   insert_ok)],
                           Flushed(detection_logger), insert_ok)
    /\ UNCHANGED queued
    /\ UNCHANGED wvars
    /\ UNCHANGED rvars
    /\ UNCHANGED xvars

----------------------------------------------------------------------------
(* ChannelWorker *)

WorkerInit(configured, polygons, rows, wired, lossy, limit) ==
    /\ wpc = "start"
    /\ stream_lossy = lossy
    /\ now = 0
    /\ time_limit = limit
    /\ channel_seats \in configured
    /\ roi_polygon \in polygons
    /\ is_connected = FALSE
    /\ belongings_wired = wired
    /\ seat_db \in [SeatIds -> rows \cup {NoRecord}]
    /\ \A s \in SeatIds \ SeatSet(channel_seats) : seat_db[s] = NoRecord
    /\ \A s \in SeatSet(channel_seats) : seat_db[s] \in rows
    /\ roi_seats = <<>>
    /\ previous_occupancy = [s \in SeatIds |-> "empty"]
    /\ abandoned_timers = [s \in SeatIds |-> 0]
    /\ occupancy = [s \in SeatIds |-> FALSE]
    /\ seat_idx = 0
    /\ error_count = 0
    /\ step = NoStep
    /\ fed = [s \in SeatIds |-> "none"]
    /\ last_update = [s \in SeatIds |-> NoUpdate]
    /\ obj_run = [s \in SeatIds |-> 0]
    /\ cycle = "none"
    /\ detect_failed_run = 0
    /\ exit_from = "none"
    /\ none_run = 0
    /\ chain = [s \in SeatIds |-> "none"]

\* a loop head that never sees the event
is_set_never(event) == FALSE

\* self.stop_event.is_set() at the loop head (line 333)
is_set(event) == event

\* where run() left its try block, by this step or by an earlier one
ExitFrom == IF wpc' = "done" /\ wpc # "done" THEN wpc ELSE exit_from

\* lines 112-121: the channel's seats whose roi_polygon is not empty
RoiSeats(seats, polygon) == SelectSeq(seats, LAMBDA s : polygon[s])

\* the check of line 124 left out
ResolvedAnyRoi(seats, polygon) == Len(seats) > 0

\* lines 100 and 124: initialize() goes on only with a seat that has a ROI
Resolved(seats, polygon) ==
    Len(seats) > 0 /\ Len(RoiSeats(seats, polygon)) > 0

\* initialize(): load the channel's seats, seed previous_occupancy from the
\* seat_status rows; a False return or an exception ends run().
Initialize ==
    /\ wpc = "start"
    /\ \E db_ok \in BOOLEAN :
         IF db_ok /\ Resolved(channel_seats, roi_polygon)
         THEN /\ roi_seats' = RoiSeats(channel_seats, roi_polygon)
              /\ previous_occupancy' =
                    [s \in SeatIds |->
                        IF s \in SeatSet(RoiSeats(channel_seats, roi_polygon))
                        THEN SeedStatus(seat_db[s]) ELSE "empty"]
              /\ chain' =
                    [s \in SeatIds |->
                        IF s \in SeatSet(RoiSeats(channel_seats, roi_polygon))
                        THEN SeedStatus(seat_db[s]) ELSE "none"]
              /\ wpc' = "connect"
         ELSE /\ wpc' = "done"
              /\ UNCHANGED <<roi_seats, previous_occupancy, chain>>
    /\ UNCHANGED <<now, time_limit, seat_db, channel_seats, roi_polygon, stream_lossy,
                   is_connected, belongings_wired,
                   abandoned_timers, occupancy, seat_idx, error_count,
                   step, fed, last_update, obj_run, cycle>>
    /\ UNCHANGED rvars
    /\ UNCHANGED lvars
    /\ UNCHANGED detect_failed_run
    /\ UNCHANGED xvars
    /\ exit_from' = ExitFrom
    /\ UNCHANGED none_run

\* connect_rtsp() of line 322: a failure returns from run()
ConnectRtsp ==
    /\ wpc = "connect"
    /\ \E connect_ok \in BOOLEAN :
         /\ is_connected' = connect_ok
         /\ wpc' = IF connect_ok THEN "loop" ELSE "done"
    /\ UNCHANGED <<now, time_limit, seat_db, channel_seats, roi_polygon, stream_lossy,
                   belongings_wired, roi_seats, previous_occupancy,
                   abandoned_timers, occupancy, seat_idx, error_count,
                   step, fed, last_update, obj_run, cycle>>
    /\ UNCHANGED rvars
    /\ UNCHANGED lvars
    /\ UNCHANGED detect_failed_run
    /\ UNCHANGED xvars
    /\ exit_from' = ExitFrom
    /\ UNCHANGED <<none_run, chain>>

\* except Exception of the main loop (lines 392-407), entered with the given
\* error_count
LoopException(count) ==
    /\ error_count' = count + 1
    /\ IF count + 1 >= max_errors
       THEN wpc' = "done" /\ now' = now
       ELSE wpc' = "loop" /\ now' \in Later

\* capture_frame(): None when the client is not connected or the read fails
CaptureResult ==
    IF ~is_connected THEN {FALSE}
    ELSE IF stream_lossy THEN BOOLEAN ELSE {TRUE}

\* the reconnection started one failure late
TooManyErrorsLate(count) == count > max_errors

\* line 348
TooManyErrors(count) == count >= max_errors

\* the counter left as it was when a frame arrives
ErrorCountOnFrameKept(count) == count

\* line 367: a captured frame resets error_count before process_frame runs
ErrorCountOnFrame(count) == 0

\* one pass of the loop head (lines 333-371): capture a frame; on None count
\* the error and, at max_errors, disconnect and go on to reconnect; on a
\* frame reset error_count and run the detector and the matcher
\* (process_frame up to line 179)
CaptureFrame ==
    /\ wpc = "loop"
    /\ ~is_set(stop_event)
    /\ \E frame_ok \in CaptureResult, detect_ok \in BOOLEAN :
         IF ~frame_ok
         THEN /\ error_count' = error_count + 1
              /\ none_run' = none_run + 1
              /\ detect_failed_run' = 0
              /\ IF TooManyErrors(error_count + 1)
                 THEN wpc' = "reconnect" /\ is_connected' = FALSE
                 ELSE wpc' = "loop" /\ is_connected' = is_connected
              /\ now' \in Later
              /\ cycle' = "no_frame"
              /\ UNCHANGED <<occupancy, seat_idx>>
         ELSE IF detect_ok
         THEN /\ occupancy' \in [SeatIds -> BOOLEAN]
              /\ \A s \in SeatIds \ SeatSet(roi_seats) : ~occupancy'[s]
              /\ seat_idx' = 1
              /\ wpc' = "frame"
              /\ error_count' = ErrorCountOnFrame(error_count)
              /\ now' = now
              /\ cycle' = "running"
              /\ detect_failed_run' = 0
              /\ none_run' = 0
              /\ UNCHANGED is_connected
         ELSE /\ detect_failed_run < MaxDetectFailures
              /\ LoopException(ErrorCountOnFrame(error_count))
              /\ cycle' = "detect_failed"
              /\ detect_failed_run' = detect_failed_run + 1
              /\ none_run' = 0
              /\ UNCHANGED <<occupancy, seat_idx, is_connected>>
    /\ step' = NoStep
    /\ queued' = [s \in SeatIds |-> 0]
    /\ UNCHANGED <<time_limit, seat_db, channel_seats, roi_polygon, stream_lossy,
                   belongings_wired,
                   roi_seats, previous_occupancy, abandoned_timers, fed,
                   last_update, obj_run>>
    /\ UNCHANGED <<detection_logger, detection_events, built, lstep>>
    /\ UNCHANGED rvars
    /\ UNCHANGED xvars
    /\ exit_from' = ExitFrom
    /\ UNCHANGED chain

\* lines 353-361: after disconnect() and the pause, connect_rtsp(); a failure
\* breaks out of the loop
Reconnect ==
    /\ wpc = "reconnect"
    /\ \E connect_ok \in BOOLEAN :
         IF connect_ok
         THEN /\ is_connected' = TRUE
              /\ error_count' = 0
              /\ none_run' = 0
              /\ wpc' = "loop"
              /\ now' \in Later
              /\ cycle' = "reconnected"
         ELSE /\ wpc' = "done"
              /\ cycle' = "reconnect_failed"
              /\ UNCHANGED <<is_connected, error_count, now, none_run>>
    /\ UNCHANGED <<time_limit, seat_db, channel_seats, roi_polygon, stream_lossy,
                   belongings_wired,
                   roi_seats, previous_occupancy, abandoned_timers, occupancy,
                   seat_idx, step, fed, last_update, obj_run>>
    /\ UNCHANGED rvars
    /\ UNCHANGED lvars
    /\ UNCHANGED detect_failed_run
    /\ UNCHANGED xvars
    /\ exit_from' = ExitFrom
    /\ UNCHANGED chain

\* the new status remembered only when its row was written
PreviousAfterWritten(prev_status, new_status, write_ok) ==
    IF write_ok THEN new_status ELSE prev_status

\* line 310: previous_occupancy[seat_id] at the end of the iteration
PreviousAfter(prev_status, new_status, write_ok) == new_status

\* what one iteration of "for seat_id, info in occupancy.items()" (lines
\* 181-310) does to the worker and to the seat_status table
SeatIteration ==
    /\ wpc = "frame"
    /\ seat_idx <= Len(roi_seats)
    /\ \E belongings_detected \in BelongingsSignal, read_ok, write_ok \in BOOLEAN :
         LET seat_id == roi_seats[seat_idx]
             person_detected == occupancy[seat_id]
             prev_status == previous_occupancy[seat_id]
             timer == NewTimer(abandoned_timers[seat_id], person_detected,
                               belongings_detected)
             new_status == NewStatus(abandoned_timers[seat_id], person_detected,
                                     belongings_detected)
             db_status == seat_db[seat_id]
             status_update == StatusUpdate(new_status, db_status, now)
             event == EmittedEvent(prev_status, new_status)
             run == IF ~person_detected /\ belongings_detected
                    THEN obj_run[seat_id] + 1 ELSE 0
         IN
         /\ timer <= MaxTimerCycles * snapshot_interval
         /\ abandoned_timers' = [abandoned_timers EXCEPT ![seat_id] = timer]
         /\ obj_run' = [obj_run EXCEPT ![seat_id] = run]
         /\ IF new_status = "empty" /\ ~read_ok
            THEN \* get_seat_status raises at line 230: the frame is abandoned
                 /\ LoopException(error_count)
                 /\ step' = NoStep
                 /\ cycle' = "aborted"
                 /\ UNCHANGED <<seat_db, previous_occupancy, seat_idx, fed,
                                last_update, chain>>
            ELSE /\ seat_db' = IF write_ok
                               THEN [seat_db EXCEPT ![seat_id] = status_update]
                               ELSE seat_db
                 /\ previous_occupancy' =
                       [previous_occupancy EXCEPT
                          ![seat_id] = PreviousAfter(prev_status, new_status,
                                                     write_ok)]
                 /\ chain' = IF event # "none"
                             THEN [chain EXCEPT ![seat_id] = new_status]
                             ELSE chain
                 /\ seat_idx' = seat_idx + 1
                 /\ fed' = [fed EXCEPT ![seat_id] = CurrentStatus(person_detected)]
                 /\ last_update' = [last_update EXCEPT ![seat_id] = Written(status_update)]
                 /\ step' =
                       [seat |-> seat_id, person |-> person_detected,
                        obj |-> belongings_detected, prev_status |-> prev_status,
                        new_status |-> new_status, event |-> event,
                        update |-> status_update, before |-> last_update[seat_id],
                        db_exists |-> db_status.exists, write_ok |-> write_ok,
                        repeat |-> (fed[seat_id] = CurrentStatus(person_detected)),
                        timer_before |-> abandoned_timers[seat_id],
                        timer |-> timer, run |-> run, time |-> now]
                 /\ UNCHANGED <<wpc, now, error_count, cycle>>
    /\ UNCHANGED <<time_limit, channel_seats, roi_polygon, stream_lossy,
                   is_connected, belongings_wired, roi_seats, occupancy>>
    /\ UNCHANGED rvars
    /\ UNCHANGED detect_failed_run
    /\ UNCHANGED xvars
    /\ exit_from' = ExitFrom
    /\ UNCHANGED none_run

\* the iteration as the worker's own state sees it. log_frame_detection and
\* log_status_change go to the DetectionLogger, which catches the failures
\* of its writes and hands nothing back: the logger's state is followed by
\* ProcessSeatLogged.
ProcessSeat ==
    /\ SeatIteration
    /\ UNCHANGED lvars

\* the calls the iteration makes to the DetectionLogger: log_frame_detection
\* at line 197, before the seat's row is read, and log_status_change at
\* line 284 when the iteration comes that far and the status changed
Telemetry ==
    \E frame_insert_ok, event_insert_ok \in BOOLEAN :
       LET seat_id == roi_seats[seat_idx]
           frame_event == Built("detection_frame")
           flushed == AddToBatchFlushed(detection_logger, frame_event, now)
           queued_logger == AddToBatch(detection_logger, frame_event, now,
                                       frame_insert_ok)
           changed == step'.seat # "none" /\ step'.event # "none"
           status_event == Built("status_change")
       IN /\ detection_logger' =
                IF changed
                THEN InsertSingle(queued_logger, status_event, event_insert_ok)
                ELSE queued_logger
          /\ detection_events' =
                Inserted(Inserted(detection_events,
                                  AddToBatchWrites(detection_logger, frame_event,
                                                   now, frame_insert_ok)),
                         IF changed
                         THEN InsertSingleWrites(status_event, event_insert_ok)
                         ELSE {})
          /\ built' =
                LET told == TalliedBulk(built, flushed, frame_insert_ok)
                IN [detection_frame |-> built.detection_frame + 1,
                    status_change |-> IF changed THEN built.status_change + 1
                                      ELSE built.status_change,
                    lost |-> built.lost
                             \cup Lost(flushed, frame_insert_ok)
                             \cup (IF changed
                                   THEN Lost({status_event}, event_insert_ok)
                                   ELSE {}),
                    bulk_ok |-> told.bulk_ok,
                    bulk_failed |-> told.bulk_failed,
                    single_failed |->
                       IF changed
                       THEN TalliedSingle(built, event_insert_ok).single_failed
                       ELSE built.single_failed,
                    flush_calls |-> built.flush_calls]
          /\ queued' = [queued EXCEPT ![seat_id] = @ + 1]
          /\ lstep' =
                IF changed
                THEN [op |-> "log_status_change", event |-> status_event,
                      write_ok |-> event_insert_ok, flushed |-> {},
                      wrote |-> InsertSingleWrites(status_event, event_insert_ok),
                      time |-> now, before |-> queued_logger]
                ELSE [op |-> "log_frame_detection", event |-> frame_event,
                      write_ok |-> frame_insert_ok, flushed |-> flushed,
                      wrote |-> AddToBatchWrites(detection_logger, frame_event,
                                                 now, frame_insert_ok),
                      time |-> now, before |-> detection_logger]

\* the iteration together with what it hands to the DetectionLogger
ProcessSeatLogged ==
    /\ built.detection_frame < MaxRunEvents
    /\ built.status_change < MaxStatusEvents
    /\ SeatIteration
    /\ Telemetry

\* end of the for loop: process_frame returns, the loop sleeps
\* snapshot_interval (line 387)
EndFrame ==
    /\ wpc = "frame"
    /\ seat_idx > Len(roi_seats)
    /\ wpc' = "loop"
    /\ now' \in Later
    /\ step' = NoStep
    /\ cycle' = "completed"
    /\ UNCHANGED <<time_limit, seat_db, channel_seats, roi_polygon, stream_lossy,
                   is_connected,                   belongings_wired, roi_seats,
                   previous_occupancy, abandoned_timers, occupancy, seat_idx,
                   error_count, fed, last_update, obj_run>>
    /\ UNCHANGED rvars
    /\ UNCHANGED lvars
    /\ UNCHANGED detect_failed_run
    /\ UNCHANGED xvars
    /\ exit_from' = ExitFrom
    /\ UNCHANGED <<none_run, chain>>

\* the finally block of run() (lines 409-452): the logger is closed, the
\* stream released
Finally ==
    /\ wpc = "done"
    /\ wpc' = "stopped"
    /\ is_connected' = FALSE
    /\ \E insert_ok \in BOOLEAN :
         /\ detection_logger' = FlushBatch(detection_logger, now, insert_ok)
         /\ detection_events' =
               Inserted(detection_events, FlushWrites(detection_logger, insert_ok))
         /\ built' = TalliedBulk(
                        [built EXCEPT
                           !.lost = @ \cup Lost(Flushed(detection_logger),
                                                insert_ok)],
                        Flushed(detection_logger), insert_ok)
         /\ lstep' = [op |-> "close", event |-> <<"none", 0>>,
                      write_ok |-> insert_ok,
                      flushed |-> Flushed(detection_logger),
                      wrote |-> FlushWrites(detection_logger, insert_ok),
                      time |-> now, before |-> detection_logger]
    /\ UNCHANGED <<now, time_limit, seat_db, channel_seats, roi_polygon, stream_lossy,
                   belongings_wired, roi_seats, previous_occupancy,
                   abandoned_timers, occupancy, seat_idx, error_count,
                   step, fed, last_update, obj_run, cycle, queued>>
    /\ UNCHANGED rvars
    /\ UNCHANGED detect_failed_run
    /\ UNCHANGED xvars
    /\ exit_from' = ExitFrom
    /\ UNCHANGED <<none_run, chain>>

\* the worker on a stream whose reads do not fail
NextWorker ==
    \/ Initialize
    \/ ConnectRtsp
    \/ CaptureFrame
    \/ ProcessSeat
    \/ EndFrame
    \/ Finally

\* the worker with the state of its DetectionLogger followed
NextRun ==
    \/ Initialize
    \/ ConnectRtsp
    \/ CaptureFrame
    \/ ProcessSeatLogged
    \/ EndFrame
    \/ Finally

\* the worker on a stream whose reads can fail
NextStream ==
    \/ Initialize
    \/ ConnectRtsp
    \/ CaptureFrame
    \/ ProcessSeat
    \/ EndFrame
    \/ Reconnect
    \/ Finally

----------------------------------------------------------------------------
(* SeatRepository *)

MaxTicks == 2
TimeStep == 30

_cache_ttl == 60

\* store ids and channel ids the callers pass; "oryu" is a prefix of "oryudong"
Stores == {"oryudong", "oryu"}
Channels == {1, 2}

\* a store_id that is None or '' (both are false for "if store_id")
NoStore == ""

\* line 57: cache_key = f"{store_id}:{channel_id}"
CacheKey(store_id, channel_id) == store_id \o ":" \o ToString(channel_id)

\* the keys that ever hold an entry or a snapshot
Keys == {"oryudong:1", "oryudong:2", "oryu:1"}

\* seat lists as the seats query returns them
ZoneLists == { <<>>, <<"A-01">>, <<"A-01", "A-02">> }

NoEntry == [exists |-> FALSE, data |-> <<>>, timestamp |-> 0]
Entry(data, timestamp) == [exists |-> TRUE, data |-> data, timestamp |-> timestamp]

\* a fallback file: absent, holding a JSON list, or not parseable
NoFile == [exists |-> FALSE, readable |-> FALSE, data |-> <<>>]
File(data) == [exists |-> TRUE, readable |-> TRUE, data |-> data]
Corrupt == [exists |-> TRUE, readable |-> FALSE, data |-> <<>>]

NoCall ==
    [key |-> "none", start_time |-> 0, entry_at_start |-> NoEntry,
     data |-> <<>>, tried |-> FALSE, fetched |-> FALSE, fetch_ok |-> FALSE,
     client_ok |-> FALSE, checked_stale |-> FALSE, stale_entry |-> NoEntry,
     snap_read |-> FALSE, snap_at_read |-> NoFile, read_ok |-> FALSE,
     snap_written |-> FALSE, write_ok |-> FALSE, returned |-> FALSE, raised |-> FALSE,
     result |-> <<>>, snap_before |-> NoFile]

\* the threads that call the one repository of the process
Threads == {"t1", "t2"}

\* a thread outside the repository; pc is its position inside
\* get_seats_by_channel or invalidate_cache, fetch_seq the order number of
\* its query, and for a cache hit served is the order number of the query
\* whose data it got, served_inval that of the latest invalidation of the
\* key, beside_fetch whether another thread's query was in flight
NoCaller ==
    [pc |-> "idle", key |-> "none", store_id |-> NoStore, channel_id |-> None,
     data |-> <<>>, fetch_seq |-> 0, returned |-> "none", served |-> 0,
     served_inval |-> 0, beside_fetch |-> FALSE]

\* calls made, queries and invalidations numbered in the order they happen;
\* per key the number of the query that gave the entry's data and of the
\* latest invalidate_cache(store_id, channel_id) of that key that returned
NoRaces ==
    [calls |-> 0, seq |-> 0, entry_fetch |-> [k \in Keys |-> 0],
     inval_at |-> [k \in Keys |-> 0]]

NoInval ==
    [called |-> FALSE, store_id |-> NoStore, channel_id |-> None,
     before |-> [k \in Keys |-> NoEntry], files |-> [k \in Keys |-> NoFile]]

\* a repository whose callers ask for the given keys, the seats table
\* holding one of the given lists for each of them and the fallback
\* directory one of the given files
RepoInit(keys, lists, files) ==
    /\ clock = 0
    /\ cache = [k \in Keys |-> NoEntry]
    /\ queried = keys
    /\ snapshot \in [Keys -> files \cup {NoFile}]
    /\ backend \in [Keys -> lists \cup {<<>>}]
    /\ \A k \in Keys \ keys : snapshot[k] = NoFile /\ backend[k] = <<>>
    /\ \A k \in keys : snapshot[k] \in files /\ backend[k] \in lists
    /\ rpc = "idle"
    /\ call = NoCall
    /\ inval = NoInval
    /\ callers = [th \in Threads |-> NoCaller]
    /\ cache_lock = "none"
    /\ races = NoRaces

\* a step of the repository other than invalidate_cache
NotInvalidate ==
    /\ inval' = NoInval
    /\ UNCHANGED queried
    /\ UNCHANGED <<callers, cache_lock, races>>

\* the age compared with <= instead of <
IsFreshInclusive(entry, t) == entry.exists /\ t - entry.timestamp <= _cache_ttl

\* line 63: time.time() - entry['timestamp'] < self._cache_ttl
IsFresh(entry, t) == entry.exists /\ t - entry.timestamp < _cache_ttl

\* the client property read before the try: its exception leaves the call
FetchFailureRaises(client_ok, query_ok) ==
    IF client_ok THEN "stale" ELSE "raised"

\* where the failure of the client property or of the query leads: both sit
\* inside the try of line 70, so the except branch of line 95 takes them
FetchFailure(client_ok, query_ok) == "stale"

\* an expired entry passed over in the except branch
StaleServesFresh(entry) == IsFresh(entry, clock)

\* line 100: any entry of the key is served, whatever its age
StaleServes(entry) == entry.exists

\* the file looked up under a name that is never written
LoadFallbackNever(file, read_ok) == <<>>

\* _load_fallback: the file's list, [] when absent or when reading raises
LoadFallback(file, read_ok) ==
    IF file.exists /\ file.readable /\ read_ok THEN file.data ELSE <<>>

\* the file never written
SaveFallbackSkipped(file, data, write_ok) == {file}

\* _save_fallback: the file after the call; a failed write leaves the old
\* file (mkdir or open failed) or a truncated one (json.dump failed)
SaveFallback(file, data, write_ok) ==
    IF write_ok THEN {File(data)} ELSE {file, Corrupt}

Return(c, result) == [c EXCEPT !.returned = TRUE, !.result = result]

\* step 1, under _cache_lock (lines 57-67)
GetSeatsByChannel ==
    /\ rpc = "idle"
    /\ \E cache_key \in queried :
         LET entry == cache[cache_key]
             c == [NoCall EXCEPT !.key = cache_key, !.start_time = clock,
                                 !.entry_at_start = entry]
         IN IF IsFresh(entry, clock)
            THEN /\ call' = Return(c, entry.data)
                 /\ rpc' = "idle"
            ELSE /\ call' = c
                 /\ rpc' = "fetch"
    /\ UNCHANGED <<clock, cache, snapshot, backend>>
    /\ NotInvalidate
    /\ UNCHANGED wvars
    /\ UNCHANGED lvars
    /\ UNCHANGED detect_failed_run
    /\ UNCHANGED xvars

\* step 2, the query (lines 70-79), outside the lock
Fetch ==
    /\ rpc = "fetch"
    /\ \E client_ok, query_ok \in BOOLEAN :
         IF client_ok /\ query_ok
         THEN /\ call' = [call EXCEPT !.tried = TRUE,
                                      !.fetched = TRUE, !.fetch_ok = TRUE,
                                      !.client_ok = TRUE,
                                      !.data = backend[call.key]]
              /\ rpc' = "store"
         ELSE /\ call' = [call EXCEPT !.tried = TRUE,
                                      !.fetched = client_ok,
                                      !.client_ok = client_ok,
                                      !.raised = (FetchFailure(client_ok, query_ok) = "raised")]
              /\ rpc' = FetchFailure(client_ok, query_ok)
    /\ UNCHANGED <<clock, cache, snapshot, backend>>
    /\ NotInvalidate
    /\ UNCHANGED wvars
    /\ UNCHANGED lvars
    /\ UNCHANGED detect_failed_run
    /\ UNCHANGED xvars

\* cache update under the lock (lines 82-86)
Store ==
    /\ rpc = "store"
    /\ cache' = [cache EXCEPT ![call.key] = Entry(call.data, clock)]
    /\ rpc' = "save"
    /\ UNCHANGED <<clock, snapshot, backend, call>>
    /\ NotInvalidate
    /\ UNCHANGED wvars
    /\ UNCHANGED lvars
    /\ UNCHANGED detect_failed_run
    /\ UNCHANGED xvars

\* write-through and return (lines 89-93)
Save ==
    /\ rpc = "save"
    /\ IF call.data # <<>>
       THEN \E write_ok \in BOOLEAN :
              /\ snapshot' \in [Keys -> {NoFile, File(<<"A-01">>), File(<<"A-01", "A-02">>), Corrupt}]
              /\ snapshot'[call.key] \in SaveFallback(snapshot[call.key], call.data, write_ok)
              /\ \A k \in Keys \ {call.key} : snapshot'[k] = snapshot[k]
              /\ call' = Return([call EXCEPT !.snap_written = TRUE,
                                              !.write_ok = write_ok,
                                              !.snap_before = snapshot[call.key]],
                                call.data)
       ELSE /\ snapshot' = snapshot
            /\ call' = Return([call EXCEPT !.snap_before = snapshot[call.key]],
                              call.data)
    /\ rpc' = "idle"
    /\ UNCHANGED <<clock, cache, backend>>
    /\ NotInvalidate
    /\ UNCHANGED wvars
    /\ UNCHANGED lvars
    /\ UNCHANGED detect_failed_run
    /\ UNCHANGED xvars

\* step 3, the stale entry under the lock (lines 99-102)
StaleCheck ==
    /\ rpc = "stale"
    /\ LET entry == cache[call.key]
           c == [call EXCEPT !.checked_stale = TRUE, !.stale_entry = entry]
       IN IF StaleServes(entry)
          THEN /\ call' = Return(c, entry.data)
               /\ rpc' = "idle"
          ELSE /\ call' = c
               /\ rpc' = "load"
    /\ UNCHANGED <<clock, cache, snapshot, backend>>
    /\ NotInvalidate
    /\ UNCHANGED wvars
    /\ UNCHANGED lvars
    /\ UNCHANGED detect_failed_run
    /\ UNCHANGED xvars

\* step 4, the local JSON (line 105)
Load ==
    /\ rpc = "load"
    /\ \E read_ok \in BOOLEAN :
         call' = Return([call EXCEPT !.snap_read = TRUE,
                                     !.snap_at_read = snapshot[call.key],
                                     !.read_ok = read_ok],
                        LoadFallback(snapshot[call.key], read_ok))
    /\ rpc' = "idle"
    /\ UNCHANGED <<clock, cache, snapshot, backend>>
    /\ NotInvalidate
    /\ UNCHANGED wvars
    /\ UNCHANGED lvars
    /\ UNCHANGED detect_failed_run
    /\ UNCHANGED xvars

\* time passes
Tick ==
    /\ clock + TimeStep <= MaxTicks * TimeStep
    /\ clock' = clock + TimeStep
    /\ UNCHANGED <<cache, snapshot, backend, rpc, call>>
    /\ NotInvalidate
    /\ UNCHANGED wvars
    /\ UNCHANGED lvars
    /\ UNCHANGED detect_failed_run
    /\ UNCHANGED xvars

\* the seats table is edited (outside the repository)
BackendChange ==
    /\ \E k \in queried, data \in ZoneLists :
         /\ data # backend[k]
         /\ backend' = [backend EXCEPT ![k] = data]
    /\ UNCHANGED <<clock, cache, snapshot, rpc, call>>
    /\ NotInvalidate
    /\ UNCHANGED wvars
    /\ UNCHANGED lvars
    /\ UNCHANGED detect_failed_run
    /\ UNCHANGED xvars

\* the entries of a store looked up without the ':' that ends the store id
StartsWithStoreId(k, store_id) ==
    Len(k) >= Len(store_id) /\ SubSeq(k, 1, Len(store_id)) = store_id

\* line 187: k.startswith(f"{store_id}:")
StartsWith(k, store_id) ==
    LET prefix == store_id \o ":"
    IN Len(k) >= Len(prefix) /\ SubSeq(k, 1, Len(prefix)) = prefix

\* the cache after the body of invalidate_cache (lines 181-198)
CacheAfterInvalidate(entries, store_id, channel_id) ==
    IF store_id # NoStore /\ channel_id # None
    THEN [k \in Keys |->
             IF k = CacheKey(store_id, channel_id) THEN NoEntry ELSE entries[k]]
    ELSE IF store_id # NoStore
    THEN [k \in Keys |->
             IF StartsWith(k, store_id) THEN NoEntry ELSE entries[k]]
    ELSE [k \in Keys |-> NoEntry]

\* invalidate_cache(store_id, channel_id), under _cache_lock (lines 180-198)
InvalidateCache ==
    /\ \E store_id \in Stores \cup {NoStore}, channel_id \in Channels \cup {None} :
         /\ cache' = CacheAfterInvalidate(cache, store_id, channel_id)
         /\ inval' = [called |-> TRUE, store_id |-> store_id,
                      channel_id |-> channel_id, before |-> cache,
                      files |-> snapshot]
    /\ UNCHANGED <<clock, snapshot, backend, rpc, call, queried>>
    /\ UNCHANGED <<callers, cache_lock, races>>
    /\ UNCHANGED wvars
    /\ UNCHANGED lvars
    /\ UNCHANGED detect_failed_run
    /\ UNCHANGED xvars

NextRepo ==
    \/ GetSeatsByChannel
    \/ Fetch
    \/ Store
    \/ Save
    \/ StaleCheck
    \/ Load
    \/ Tick
    \/ BackendChange

----------------------------------------------------------------------------
(* SeatRepository called from several threads *)

\* the positions at which a thread is inside a "with self._cache_lock" block
LockedPcs == {"check", "store", "stale", "invalidate"}

\* the positions at which a thread waits for the lock
WaitingPcs == {"wait_store", "wait_stale"}

\* the rest of the repository and the other components stand still
CallersOnly ==
    /\ UNCHANGED <<rpc, call, queried, inval>>
    /\ UNCHANGED wvars
    /\ UNCHANGED lvars
    /\ UNCHANGED xvars

\* the lock kept through the query when the entry was not fresh
LockAfterCheckHeld(th, fresh) == IF fresh THEN "none" ELSE th

\* the holder of the lock when the with block of lines 60-67 is left, by the
\* return of line 65 or at its end
LockAfterCheck(th, fresh) == "none"

\* get_seats_by_channel(store_id, channel_id) called: the thread takes the
\* lock of line 60
CallerCalls(th) ==
    /\ callers[th].pc = "idle"
    /\ cache_lock = "none"
    /\ races.calls < MaxCalls
    /\ \E cache_key \in queried :
         callers' = [callers EXCEPT ![th] = [NoCaller EXCEPT !.pc = "check",
                                                             !.key = cache_key]]
    /\ cache_lock' = th
    /\ races' = [races EXCEPT !.calls = @ + 1]
    /\ UNCHANGED <<clock, cache, snapshot, backend>>
    /\ CallersOnly

\* step 1 under the lock (lines 61-67)
CallerChecks(th) ==
    /\ callers[th].pc = "check"
    /\ cache_lock = th
    /\ LET cache_key == callers[th].key
           fresh == IsFresh(cache[cache_key], clock)
       IN /\ callers' =
                [callers EXCEPT ![th] =
                   IF fresh
                   THEN [@ EXCEPT !.pc = "idle", !.returned = "hit",
                                  !.served = races.entry_fetch[cache_key],
                                  !.served_inval = races.inval_at[cache_key],
                                  !.beside_fetch =
                                      \E other \in Threads \ {th} :
                                          callers[other].pc = "fetch"]
                   ELSE [@ EXCEPT !.pc = "fetch"]]
          /\ cache_lock' = LockAfterCheck(th, fresh)
    /\ UNCHANGED <<clock, cache, snapshot, backend, races>>
    /\ CallersOnly

\* step 2, the query (lines 70-79), numbered when it reads the table
CallerFetches(th) ==
    /\ callers[th].pc = "fetch"
    /\ \E fetch_ok \in BOOLEAN :
         IF fetch_ok
         THEN /\ callers' = [callers EXCEPT ![th] =
                               [@ EXCEPT !.pc = "wait_store",
                                         !.data = backend[callers[th].key],
                                         !.fetch_seq = races.seq + 1]]
              /\ races' = [races EXCEPT !.seq = @ + 1]
         ELSE /\ callers' = [callers EXCEPT ![th] = [@ EXCEPT !.pc = "wait_stale"]]
              /\ races' = races
    /\ UNCHANGED <<clock, cache, snapshot, backend, cache_lock>>
    /\ CallersOnly

\* the lock of line 82 or of line 99 taken
CallerLocks(th) ==
    /\ callers[th].pc \in WaitingPcs
    /\ cache_lock = "none"
    /\ cache_lock' = th
    /\ callers' = [callers EXCEPT ![th] =
                     [@ EXCEPT !.pc = IF callers[th].pc = "wait_store"
                                      THEN "store" ELSE "stale"]]
    /\ UNCHANGED <<clock, cache, snapshot, backend, races>>
    /\ CallersOnly

\* the cache update under the lock (lines 82-86)
CallerStores(th) ==
    /\ callers[th].pc = "store"
    /\ cache_lock = th
    /\ cache' = [cache EXCEPT ![callers[th].key] = Entry(callers[th].data, clock)]
    /\ races' = [races EXCEPT !.entry_fetch[callers[th].key] = callers[th].fetch_seq]
    /\ callers' = [callers EXCEPT ![th] = [@ EXCEPT !.pc = "save"]]
    /\ cache_lock' = "none"
    /\ UNCHANGED <<clock, snapshot, backend>>
    /\ CallersOnly

\* write-through and return (lines 89-93)
CallerSaves(th) ==
    /\ callers[th].pc = "save"
    /\ LET cache_key == callers[th].key
           data == callers[th].data
       IN IF data # <<>>
          THEN \E write_ok \in BOOLEAN :
                 \E file \in SaveFallback(snapshot[cache_key], data, write_ok) :
                    snapshot' = [snapshot EXCEPT ![cache_key] = file]
          ELSE snapshot' = snapshot
    /\ callers' = [callers EXCEPT ![th] =
                     [@ EXCEPT !.pc = "idle", !.returned = "fetched",
                               !.data = <<>>]]
    /\ UNCHANGED <<clock, cache, backend, cache_lock, races>>
    /\ CallersOnly

\* step 3 under the lock (lines 99-102)
CallerChecksStale(th) ==
    /\ callers[th].pc = "stale"
    /\ cache_lock = th
    /\ LET entry == cache[callers[th].key]
       IN callers' =
             [callers EXCEPT ![th] =
                IF StaleServes(entry)
                THEN [@ EXCEPT !.pc = "idle", !.returned = "stale"]
                ELSE [@ EXCEPT !.pc = "load"]]
    /\ cache_lock' = "none"
    /\ UNCHANGED <<clock, cache, snapshot, backend, races>>
    /\ CallersOnly

\* step 4, the local JSON (line 105)
CallerLoads(th) ==
    /\ callers[th].pc = "load"
    /\ callers' = [callers EXCEPT ![th] =
                     [@ EXCEPT !.pc = "idle", !.returned = "fallback"]]
    /\ UNCHANGED <<clock, cache, snapshot, backend, cache_lock, races>>
    /\ CallersOnly

\* invalidate_cache(store_id, channel_id) called: the thread takes the lock
\* of line 180
InvalidatorCalls(th) ==
    /\ callers[th].pc = "idle"
    /\ cache_lock = "none"
    /\ races.calls < MaxCalls
    /\ \E store_id \in {"oryudong"}, channel_id \in {1, None} :
         callers' = [callers EXCEPT ![th] =
                       [NoCaller EXCEPT !.pc = "invalidate",
                                        !.store_id = store_id,
                                        !.channel_id = channel_id]]
    /\ cache_lock' = th
    /\ races' = [races EXCEPT !.calls = @ + 1]
    /\ UNCHANGED <<clock, cache, snapshot, backend>>
    /\ CallersOnly

\* the body of invalidate_cache under the lock (lines 181-198) and its return
InvalidatorClears(th) ==
    /\ callers[th].pc = "invalidate"
    /\ cache_lock = th
    /\ LET after == CacheAfterInvalidate(cache, callers[th].store_id,
                                         callers[th].channel_id)
           covered == IF callers[th].store_id # NoStore
                         /\ callers[th].channel_id # None
                      THEN {CacheKey(callers[th].store_id, callers[th].channel_id)}
                      ELSE {}
       IN /\ cache' = after
          /\ races' = [races EXCEPT
                         !.seq = @ + 1,
                         !.inval_at = [k \in Keys |->
                                          IF k \in covered THEN races.seq + 1
                                          ELSE races.inval_at[k]]]
    /\ callers' = [callers EXCEPT ![th] =
                     [@ EXCEPT !.pc = "idle", !.returned = "invalidated"]]
    /\ cache_lock' = "none"
    /\ UNCHANGED <<clock, snapshot, backend>>
    /\ CallersOnly

\* a step of one of the threads
CallerStep(th) ==
    \/ CallerCalls(th)
    \/ CallerChecks(th)
    \/ CallerFetches(th)
    \/ CallerLocks(th)
    \/ CallerStores(th)
    \/ CallerSaves(th)
    \/ CallerChecksStale(th)
    \/ CallerLoads(th)
    \/ InvalidatorCalls(th)
    \/ InvalidatorClears(th)

\* the seats table edited once during the run
BackendChangeOnce ==
    /\ \A k \in queried : backend[k] = <<"A-01">>
    /\ BackendChange

NextCallers ==
    \/ \E th \in Threads : CallerStep(th)
    \/ BackendChangeOnce

----------------------------------------------------------------------------
(* ROIMatcher *)

\* a float that is a quotient of two integers, kept as <<numerator,
\* denominator>> with a positive denominator; the comparisons of the code
\* are made on the fractions themselves
Fraction(num, den) == <<num, den>>
Zero == Fraction(0, 1)
One == Fraction(1, 1)
Gt(a, b) == a[1] * b[2] > b[1] * a[2]
Eq(a, b) == a[1] * b[2] = b[1] * a[2]

\* settings.IOU_THRESHOLD, 0.3
iou_threshold == Fraction(3, 10)

Min2(a, b) == IF a <= b THEN a ELSE b
Max2(a, b) == IF a >= b THEN a ELSE b

\* a detection (x1, y1, x2, y2, confidence); the confidence in hundredths
Detection(x1, y1, x2, y2, confidence) == <<x1, y1, x2, y2, confidence>>
NoDetection == <<>>

\* person_box[:4]
Bbox(person_box) == SubSeq(person_box, 1, 4)

\* intersection over union of two boxes (x1, y1, x2, y2)
calculate_iou(box1, box2) ==
    LET x1_i == Max2(box1[1], box2[1])
        y1_i == Max2(box1[2], box2[2])
        x2_i == Min2(box1[3], box2[3])
        y2_i == Min2(box1[4], box2[4])
        intersection == (x2_i - x1_i) * (y2_i - y1_i)
        area1 == (box1[3] - box1[1]) * (box1[4] - box1[2])
        area2 == (box2[3] - box2[1]) * (box2[4] - box2[2])
        union == area1 + area2 - intersection
    IN IF x2_i < x1_i \/ y2_i < y1_i THEN Zero
       ELSE IF union = 0 THEN Zero
       ELSE Fraction(intersection, union)

\* the middle of the box taken for the person's place
BoxCenter(person_box) ==
    <<person_box[1] + person_box[3], person_box[2] + person_box[4]>>

\* line 188: ((x1 + x2) / 2, y2). The point is kept as twice its
\* coordinates, so that a half pixel stays an integer.
BottomCenter(person_box) ==
    <<person_box[1] + person_box[3], 2 * person_box[4]>>

\* whether the edge from p1 to p2 toggles "inside" for the point (lines
\* 147-153); point2 is twice the point. x <= xinters is compared after
\* multiplying both sides by p2y - p1y, which turns the comparison round
\* when that difference is negative.
Crosses(point2, p1, p2) ==
    LET x2 == point2[1]
        y2 == point2[2]
        dy == p2[2] - p1[2]
        lhs == (x2 - 2 * p1[1]) * dy
        rhs == (y2 - 2 * p1[2]) * (p2[1] - p1[1])
    IN /\ y2 > 2 * Min2(p1[2], p2[2])
       /\ y2 <= 2 * Max2(p1[2], p2[2])
       /\ x2 <= 2 * Max2(p1[1], p2[1])
       /\ \/ p1[1] = p2[1]
          \/ IF dy > 0 THEN lhs <= rhs ELSE lhs >= rhs

\* an edge that leaves out the points level with its lower end
CrossesOpen(point2, p1, p2) ==
    /\ Crosses(point2, p1, p2)
    /\ point2[2] < 2 * Max2(p1[2], p2[2])

\* the test of lines 147-153 for one edge
EdgeToggles(point2, p1, p2) == Crosses(point2, p1, p2)

\* ray casting: "inside" ends True when an odd number of edges toggled it
point_in_polygon(point2, polygon) ==
    LET n == Len(polygon)
        toggles == { i \in 1..n :
                       EdgeToggles(point2, polygon[i], polygon[(i % n) + 1]) }
    IN Cardinality(toggles) % 2 = 1

\* seat.get('type', 'rectangle')
SeatType(seat) == IF seat.type = "missing" THEN "rectangle" ELSE seat.type

RECURSIVE PolygonScan(_, _, _)
\* lines 185-193, from the detection of index i on
PolygonScan(polygon, person_detections, i) ==
    IF i > Len(person_detections)
    THEN [occupied |-> FALSE, max_iou |-> Zero]
    ELSE IF point_in_polygon(BottomCenter(person_detections[i]), polygon)
    THEN [occupied |-> TRUE, max_iou |-> One]
    ELSE PolygonScan(polygon, person_detections, i + 1)

RECURSIVE RectangleScanAll(_, _, _, _, _)
\* the scan going on after the first detection over the threshold
RectangleScanAll(seat_box, person_detections, threshold, i, max_iou) ==
    IF i > Len(person_detections)
    THEN [occupied |-> \E k \in 1..Len(person_detections) :
                          Gt(calculate_iou(Bbox(person_detections[k]), seat_box),
                             threshold),
          max_iou |-> max_iou]
    ELSE LET iou == calculate_iou(Bbox(person_detections[i]), seat_box)
         IN RectangleScanAll(seat_box, person_detections, threshold, i + 1,
                             IF Gt(iou, max_iou) THEN iou ELSE max_iou)

RECURSIVE RectangleScan(_, _, _, _, _)
\* lines 198-207, from the detection of index i on, with the largest IoU
\* seen so far
RectangleScan(seat_box, person_detections, threshold, i, max_iou) ==
    IF i > Len(person_detections)
    THEN [occupied |-> FALSE, max_iou |-> max_iou]
    ELSE LET iou == calculate_iou(Bbox(person_detections[i]), seat_box)
             seen == IF Gt(iou, max_iou) THEN iou ELSE max_iou
         IN IF Gt(iou, threshold)
            THEN [occupied |-> TRUE, max_iou |-> seen]
            ELSE RectangleScan(seat_box, person_detections, threshold, i + 1, seen)

\* whether the detection matches the seat (lines 214-225)
Matches(seat, person_box, threshold) ==
    IF SeatType(seat) = "polygon"
    THEN point_in_polygon(BottomCenter(person_box), seat.roi)
    ELSE Gt(calculate_iou(Bbox(person_box), seat.roi), threshold)

RECURSIVE MatchedDetection(_, _, _, _)
\* lines 213-225: the first detection that matches the seat
MatchedDetection(seat, person_detections, threshold, i) ==
    IF i > Len(person_detections) THEN NoDetection
    ELSE IF Matches(seat, person_detections[i], threshold)
    THEN person_detections[i]
    ELSE MatchedDetection(seat, person_detections, threshold, i + 1)

\* results[seat_id] of lines 227-232
SeatResult(seat, person_detections, threshold) ==
    LET scan == IF SeatType(seat) = "polygon"
                THEN PolygonScan(seat.roi, person_detections, 1)
                ELSE RectangleScan(seat.roi, person_detections, threshold, 1, Zero)
    IN [status |-> IF scan.occupied THEN "occupied" ELSE "empty",
        max_iou |-> scan.max_iou,
        matched_detection |->
            IF scan.occupied /\ Len(person_detections) > 0
            THEN MatchedDetection(seat, person_detections, threshold, 1)
            ELSE NoDetection]

\* the seat of the configuration with the given id
SeatOf(config, seat_id) ==
    config[CHOOSE i \in 1..Len(config) : config[i].id = seat_id]

check_occupancy(config, person_detections, threshold) ==
    [seat_id \in { config[i].id : i \in 1..Len(config) } |->
        SeatResult(SeatOf(config, seat_id), person_detections, threshold)]

\* ---- inputs --------------------------------------------------------------

MaxDetections == 3

\* seats of the matcher: the two polygons of the test fixture, a triangle
\* whose slanted edge has slope -1 (the division of line 151 is exact on
\* it), the rectangle of test_rectangle_roi, and a seat without a type
PolygonA01 == <<<<100, 100>>, <<200, 100>>, <<200, 200>>, <<100, 200>>>>
PolygonA02 == <<<<300, 100>>, <<400, 100>>, <<400, 200>>, <<300, 200>>>>
Triangle == <<<<100, 100>>, <<200, 100>>, <<100, 200>>>>
Rectangle == <<100, 100, 200, 200>>

Seat(id, type, roi) == [id |-> id, type |-> type, roi |-> roi]

FixtureConfig ==
    <<Seat("A-01", "polygon", PolygonA01), Seat("A-02", "polygon", PolygonA02)>>

RoiConfigs ==
    { FixtureConfig,
      <<Seat("A-01", "polygon", Triangle)>>,
      <<Seat("A-01", "rectangle", Rectangle)>>,
      <<Seat("A-01", "missing", Rectangle), Seat("A-02", "polygon", PolygonA01)>>,
      <<>> }

\* the two detections of the fixture, the one of test_rectangle_roi, and
\* boxes that meet the rectangle with IoU 1, 0.3 exactly, 1/7 and 18/41,
\* the last with a bottom-center at a half pixel
FixtureDetections ==
    <<Detection(120, 80, 180, 200, 95), Detection(500, 300, 600, 500, 87)>>

DetectionPool ==
    { Detection(120, 80, 180, 200, 95),
      Detection(500, 300, 600, 500, 87),
      Detection(120, 120, 180, 180, 90),
      Detection(100, 100, 200, 200, 80),
      Detection(100, 100, 160, 150, 70),
      Detection(150, 150, 250, 250, 60),
      Detection(110, 100, 205, 150, 50) }

RECURSIVE DetectionLists(_)
DetectionLists(n) ==
    IF n = 0 THEN { <<>> }
    ELSE DetectionLists(n - 1)
         \cup { Append(l, d) : l \in { x \in DetectionLists(n - 1) : Len(x) = n - 1 },
                               d \in DetectionPool }

NoResults == <<>>

MatcherInit(configs, lists) ==
    /\ matcher_seats \in configs
    /\ detections \in lists
    /\ results = NoResults
    /\ matched = FALSE

MatcherIdle == MatcherInit({<<>>}, {<<>>})

\* roi_matcher.check_occupancy(detections, iou_threshold=settings.IOU_THRESHOLD)
CheckOccupancy ==
    /\ ~matched
    /\ results' = check_occupancy(matcher_seats, detections, iou_threshold)
    /\ matched' = TRUE
    /\ UNCHANGED <<matcher_seats, detections>>
    /\ UNCHANGED svars
    /\ UNCHANGED cvars
    /\ UNCHANGED wvars
    /\ UNCHANGED rvars
    /\ UNCHANGED lvars

NextMatcher == CheckOccupancy

----------------------------------------------------------------------------
(* RTSPClient *)

\* self.cap: None, a VideoCapture that did not open, or an opened one
NoCap == "none"

\* what one pass of the for loop of connect() can meet: VideoCapture()
\* raising before self.cap is assigned, a capture that does not open, an
\* exception after the capture was assigned (opened or not), an opened
\* capture whose test read gives no frame, and an opened capture whose test
\* read gives a frame
AttemptOutcomes ==
    {"raise_create", "not_opened", "raise_closed", "raise_opened", "no_frame",
     "frame"}

\* line 36
protocols == <<"tcp", "udp">>

\* the client as far as connect, capture_frame and disconnect use it;
\* handles counts the opened captures not yet released
Client(c, connected, h) == [cap |-> c, is_connected |-> connected, handles |-> h]

\* self.cap = cv2.VideoCapture(...): the capture held before is dropped, and
\* with it its handle
Assigned(client, c) ==
    [client EXCEPT !.cap = c, !.handles = IF c = "opened" THEN 1 ELSE 0]

\* self.cap.release(); self.cap = None
Released(client) == [client EXCEPT !.cap = NoCap, !.handles = 0]

\* the pass that leaves the capture in place when the test read fails
AttemptKeepsCap(client, outcome) ==
    CASE outcome = "raise_create" ->
            IF client.cap # NoCap THEN Released(client) ELSE client
      [] outcome = "not_opened" -> Assigned(client, "closed")
      [] outcome = "raise_closed" -> Released(Assigned(client, "closed"))
      [] outcome = "raise_opened" -> Released(Assigned(client, "opened"))
      [] outcome = "no_frame" -> Assigned(client, "opened")
      [] outcome = "frame" ->
            [Assigned(client, "opened") EXCEPT !.is_connected = TRUE]

\* one pass of the for loop of connect() (lines 39-74)
Attempt(client, outcome) ==
    CASE outcome = "raise_create" ->
            IF client.cap # NoCap THEN Released(client) ELSE client
      [] outcome = "not_opened" -> Assigned(client, "closed")
      [] outcome = "raise_closed" -> Released(Assigned(client, "closed"))
      [] outcome = "raise_opened" -> Released(Assigned(client, "opened"))
      [] outcome = "no_frame" -> Released(Assigned(client, "opened"))
      [] outcome = "frame" ->
            [Assigned(client, "opened") EXCEPT !.is_connected = TRUE]

\* the passes connect() makes when the protocols meet the given outcomes:
\* it returns at the first frame
AttemptsMade(outcomes) ==
    IF outcomes[1] = "frame" THEN 1 ELSE Len(protocols)

\* the client after connect()
Connected(client, outcomes) ==
    IF AttemptsMade(outcomes) = 1
    THEN Attempt(client, outcomes[1])
    ELSE Attempt(Attempt(client, outcomes[1]), outcomes[2])

\* the value connect() returns
ConnectReturns(outcomes) == outcomes[AttemptsMade(outcomes)] = "frame"

\* the disconnect that returns at once when there is no capture
disconnect_if_cap(client) ==
    IF client.cap # NoCap
    THEN [Released(client) EXCEPT !.is_connected = FALSE]
    ELSE client

\* disconnect() (lines 143-148)
disconnect(client) ==
    [(IF client.cap # NoCap THEN Released(client) ELSE client)
        EXCEPT !.is_connected = FALSE]

\* the values capture_frame() can return (lines 85-99)
capture_frame(client) ==
    IF ~client.is_connected \/ client.cap = NoCap THEN {"none"}
    ELSE IF client.cap = "opened" THEN {"frame", "none"}
    ELSE {"none"}

ThisClient == Client(cap, is_connected, handles)

NoConn ==
    [op |-> "none", prev_op |-> "none", before |-> Client(NoCap, FALSE, 0),
     attempts |-> <<>>, returned |-> "none"]

ConnectorInit ==
    /\ cap = NoCap
    /\ handles = 0
    /\ conn = NoConn

ConnectorIdle == ConnectorInit

\* everything of the worker but is_connected
WorkerButClient ==
    <<wpc, now, time_limit, seat_db, channel_seats, roi_polygon,
      stream_lossy, belongings_wired, roi_seats, previous_occupancy,
      abandoned_timers, occupancy, seat_idx, error_count, step, fed,
      last_update, obj_run, cycle, detect_failed_run, exit_from, none_run,
      chain>>

ClientBecomes(client) ==
    /\ cap' = client.cap
    /\ is_connected' = client.is_connected
    /\ handles' = client.handles

\* RTSPClient.connect(): the protocols in order, each with its outcome
Connect ==
    /\ \E outcomes \in [1..Len(protocols) -> AttemptOutcomes] :
          LET made == AttemptsMade(outcomes)
          IN /\ ClientBecomes(Connected(ThisClient, outcomes))
             /\ conn' =
                  [op |-> "connect", prev_op |-> conn.op, before |-> ThisClient,
                   attempts |->
                      [i \in 1..made |->
                          [protocol |-> protocols[i],
                           outcome |-> outcomes[i],
                           held |-> IF i = 1 THEN ThisClient.handles
                                    ELSE Attempt(ThisClient, outcomes[1]).handles]],
                   returned |-> IF ConnectReturns(outcomes) THEN "true" ELSE "false"]
    /\ UNCHANGED WorkerButClient
    /\ UNCHANGED svars
    /\ UNCHANGED mvars
    /\ UNCHANGED rvars
    /\ UNCHANGED lvars

\* RTSPClient.capture_frame()
ClientCaptureFrame ==
    /\ \E frame \in capture_frame(ThisClient) :
          conn' = [op |-> "capture_frame", prev_op |-> conn.op,
                   before |-> ThisClient, attempts |-> <<>>, returned |-> frame]
    /\ UNCHANGED <<cap, handles>>
    /\ UNCHANGED wvars
    /\ UNCHANGED svars
    /\ UNCHANGED mvars
    /\ UNCHANGED rvars
    /\ UNCHANGED lvars

\* RTSPClient.disconnect()
Disconnect ==
    /\ ClientBecomes(disconnect(ThisClient))
    /\ conn' = [op |-> "disconnect", prev_op |-> conn.op, before |-> ThisClient,
                attempts |-> <<>>, returned |-> "none"]
    /\ UNCHANGED WorkerButClient
    /\ UNCHANGED svars
    /\ UNCHANGED mvars
    /\ UNCHANGED rvars
    /\ UNCHANGED lvars

NextConnector ==
    \/ Connect
    \/ ClientCaptureFrame
    \/ Disconnect

----------------------------------------------------------------------------
(* MultiChannelWorker *)

\* self.processes: the ChannelWorker followed step by step is the first, a
\* sibling followed by the position of its run() the second
processes == <<"worker", "sibling">>

\* process.is_alive()
IsAlive(process) ==
    IF process = "worker"
    THEN wpc \notin {"stopped", "killed"}
    ELSE sibling \notin {"stopped", "killed"}

NoSup == [stop_called |-> FALSE, joined |-> {}, terminated |-> {},
          alive_at_terminate |-> {}]

\* the two workers started (start() has returned), the supervisor in wait()
SupervisorInit(sibling_at) ==
    /\ stop_event = FALSE
    /\ spc = "wait"
    /\ join_idx = 1
    /\ sibling \in sibling_at
    /\ sup = NoSup

\* what process.terminate() does to a worker, by the SIGTERM disposition the
\* worker process has: the default one ends it at once, without its finally
\* block; the handler of lines 637-643, inherited through fork, makes the
\* interrupted run() leave its try block
TerminateOutcomes == {"killed", "handled"}

\* position of a run() that got SIGTERM
Terminated(pc, outcome) ==
    IF outcome = "killed" THEN "killed"
    ELSE IF pc \in {"stopped", "killed"} THEN pc
    ELSE "done"

\* run() of the sibling, by position -------------------------------------

\* initialize() (line 316)
SiblingInitialize ==
    /\ sibling = "start"
    /\ sibling' \in {"connect", "done"}
    /\ UNCHANGED <<stop_event, spc, join_idx, sup>>
    /\ UNCHANGED wvars
    /\ UNCHANGED rvars
    /\ UNCHANGED lvars
    /\ UNCHANGED mvars
    /\ UNCHANGED cvars

\* connect_rtsp() (line 322)
SiblingConnect ==
    /\ sibling = "connect"
    /\ sibling' \in {"loop", "done"}
    /\ UNCHANGED <<stop_event, spc, join_idx, sup>>
    /\ UNCHANGED wvars
    /\ UNCHANGED rvars
    /\ UNCHANGED lvars
    /\ UNCHANGED mvars
    /\ UNCHANGED cvars

\* one pass of the while loop (lines 333-407): the event set ends the loop;
\* otherwise the pass ends at the loop head again, or in the reconnection
\* of lines 353-361, which a failure leaves for the finally block
SiblingPass ==
    /\ sibling = "loop"
    /\ sibling' \in (IF is_set(stop_event) THEN {"done"} ELSE {"loop", "reconnect"})
    /\ UNCHANGED <<stop_event, spc, join_idx, sup>>
    /\ UNCHANGED wvars
    /\ UNCHANGED rvars
    /\ UNCHANGED lvars
    /\ UNCHANGED mvars
    /\ UNCHANGED cvars

SiblingReconnect ==
    /\ sibling = "reconnect"
    /\ sibling' \in {"loop", "done"}
    /\ UNCHANGED <<stop_event, spc, join_idx, sup>>
    /\ UNCHANGED wvars
    /\ UNCHANGED rvars
    /\ UNCHANGED lvars
    /\ UNCHANGED mvars
    /\ UNCHANGED cvars

\* the finally block (lines 409-452)
SiblingFinally ==
    /\ sibling = "done"
    /\ sibling' = "stopped"
    /\ UNCHANGED <<stop_event, spc, join_idx, sup>>
    /\ UNCHANGED wvars
    /\ UNCHANGED rvars
    /\ UNCHANGED lvars
    /\ UNCHANGED mvars
    /\ UNCHANGED cvars

\* ChannelWorker.run, loop head (line 333): the event is set
LoopExit ==
    /\ wpc = "loop"
    /\ is_set(stop_event)
    /\ wpc' = "done"
    /\ exit_from' = "loop"
    /\ step' = NoStep
    /\ UNCHANGED <<now, time_limit, seat_db, channel_seats, roi_polygon,
                   is_connected, stream_lossy, belongings_wired, roi_seats,
                   previous_occupancy, abandoned_timers, occupancy, seat_idx,
                   error_count, fed, last_update, obj_run, cycle,
                   detect_failed_run, none_run, chain>>
    /\ UNCHANGED rvars
    /\ UNCHANGED lvars
    /\ UNCHANGED xvars

\* the supervisor ---------------------------------------------------------

\* a worker's exit taken as the end of the whole run
AfterWaitStops(idx) ==
    [spc |-> "join", join_idx |-> 1, stop_event |-> TRUE]

\* wait() (lines 558-559) after the join of processes[idx] returned
AfterWait(idx) ==
    IF idx < Len(processes)
    THEN [spc |-> "wait", join_idx |-> idx + 1, stop_event |-> stop_event]
    ELSE [spc |-> "finished", join_idx |-> idx, stop_event |-> stop_event]

\* the for loop of stop() (line 540) after processes[idx] is dealt with
AfterJoin(idx) ==
    IF idx < Len(processes)
    THEN [spc |-> "join", join_idx |-> idx + 1]
    ELSE [spc |-> "returned", join_idx |-> idx]

\* wait(): process.join() returns when the process has ended
Wait ==
    /\ spc = "wait"
    /\ ~IsAlive(processes[join_idx])
    /\ spc' = AfterWait(join_idx).spc
    /\ join_idx' = AfterWait(join_idx).join_idx
    /\ stop_event' = AfterWait(join_idx).stop_event
    /\ UNCHANGED <<sibling, sup>>
    /\ UNCHANGED wvars
    /\ UNCHANGED rvars
    /\ UNCHANGED lvars
    /\ UNCHANGED mvars
    /\ UNCHANGED cvars

\* stop() up to its for loop (lines 536-538), called from the signal handler
\* or from wait() on KeyboardInterrupt
Stop ==
    /\ spc = "wait"
    /\ stop_event' = TRUE
    /\ spc' = "join"
    /\ join_idx' = 1
    /\ sup' = [sup EXCEPT !.stop_called = TRUE]
    /\ UNCHANGED sibling
    /\ UNCHANGED wvars
    /\ UNCHANGED rvars
    /\ UNCHANGED lvars
    /\ UNCHANGED mvars
    /\ UNCHANGED cvars

\* process.join(timeout=10) returns with the process ended (lines 541-542)
JoinReturns ==
    /\ spc = "join"
    /\ ~IsAlive(processes[join_idx])
    /\ spc' = AfterJoin(join_idx).spc
    /\ join_idx' = AfterJoin(join_idx).join_idx
    /\ sup' = [sup EXCEPT !.joined = @ \cup {join_idx}]
    /\ UNCHANGED <<stop_event, sibling>>
    /\ UNCHANGED wvars
    /\ UNCHANGED rvars
    /\ UNCHANGED lvars
    /\ UNCHANGED mvars
    /\ UNCHANGED cvars

\* process.join(timeout=10) times out with the process alive:
\* process.terminate() (lines 542-549)
JoinTimeout ==
    /\ spc = "join"
    /\ IsAlive(processes[join_idx])
    /\ spc' = "terminated"
    /\ sup' = [sup EXCEPT !.joined = @ \cup {join_idx},
                          !.terminated = @ \cup {join_idx},
                          !.alive_at_terminate = @ \cup {join_idx}]
    /\ \E outcome \in TerminateOutcomes :
          IF processes[join_idx] = "worker"
          THEN /\ wpc' = Terminated(wpc, outcome)
               /\ exit_from' = IF wpc = "done" /\ outcome # "killed"
                               THEN exit_from ELSE "terminated"
               /\ is_connected' = IF outcome = "killed" THEN FALSE ELSE is_connected
               /\ UNCHANGED sibling
          ELSE /\ sibling' = Terminated(sibling, outcome)
               /\ UNCHANGED <<wpc, exit_from, is_connected>>
    /\ UNCHANGED <<stop_event, join_idx>>
    /\ UNCHANGED <<now, time_limit, seat_db, channel_seats, roi_polygon,
                   stream_lossy, belongings_wired, roi_seats,
                   previous_occupancy, abandoned_timers, occupancy, seat_idx,
                   error_count, step, fed, last_update, obj_run, cycle,
                   detect_failed_run, none_run, chain>>
    /\ UNCHANGED rvars
    /\ UNCHANGED lvars
    /\ UNCHANGED mvars
    /\ UNCHANGED cvars

\* process.join(timeout=5) returns, the process ended or not (line 550)
JoinTerminated ==
    /\ spc = "terminated"
    /\ spc' = AfterJoin(join_idx).spc
    /\ join_idx' = AfterJoin(join_idx).join_idx
    /\ UNCHANGED <<stop_event, sibling, sup>>
    /\ UNCHANGED wvars
    /\ UNCHANGED rvars
    /\ UNCHANGED lvars
    /\ UNCHANGED mvars
    /\ UNCHANGED cvars

\* two workers and their supervisor; the stream of the first can fail
NextSupervisor ==
    \/ Initialize
    \/ ConnectRtsp
    \/ CaptureFrame
    \/ ProcessSeat
    \/ EndFrame
    \/ Reconnect
    \/ LoopExit
    \/ Finally
    \/ SiblingInitialize
    \/ SiblingConnect
    \/ SiblingPass
    \/ SiblingReconnect
    \/ SiblingFinally
    \/ Wait
    \/ Stop
    \/ JoinReturns
    \/ JoinTimeout
    \/ JoinTerminated

----------------------------------------------------------------------------
(* Specifications *)

\* no worker running; the clock runs up to the given limit
WorkerAside(limit) ==
    /\ wpc = "done"
    /\ now = 0
    /\ time_limit = limit
    /\ channel_seats = <<>>
    /\ roi_polygon = [s \in SeatIds |-> TRUE]
    /\ is_connected = FALSE
    /\ stream_lossy = FALSE
    /\ cycle = "none"
    /\ belongings_wired = FALSE
    /\ seat_db = [s \in SeatIds |-> NoRecord]
    /\ roi_seats = <<>>
    /\ previous_occupancy = [s \in SeatIds |-> "empty"]
    /\ abandoned_timers = [s \in SeatIds |-> 0]
    /\ occupancy = [s \in SeatIds |-> FALSE]
    /\ seat_idx = 0
    /\ error_count = 0
    /\ step = NoStep
    /\ fed = [s \in SeatIds |-> "none"]
    /\ last_update = [s \in SeatIds |-> NoUpdate]
    /\ obj_run = [s \in SeatIds |-> 0]
    /\ detect_failed_run = 0
    /\ exit_from = "none"
    /\ none_run = 0
    /\ chain = [s \in SeatIds |-> "none"]

WorkerIdle == WorkerAside(0)

\* a second of datetime.now() passes between two calls of the logger
LoggerTick ==
    /\ wpc = "done"
    /\ lstep.op # "close"
    /\ now < time_limit
    /\ now' = now + 1
    /\ lstep' = NoLogStep
    /\ UNCHANGED <<wpc, time_limit, seat_db, channel_seats, roi_polygon, stream_lossy,
                   is_connected, belongings_wired,
                   roi_seats, previous_occupancy, abandoned_timers, occupancy,
                   seat_idx, error_count, step, fed, last_update, obj_run, cycle>>
    /\ UNCHANGED <<detection_logger, detection_events, built, queued>>
    /\ UNCHANGED rvars
    /\ UNCHANGED detect_failed_run
    /\ UNCHANGED xvars
    /\ UNCHANGED exit_from
    /\ UNCHANGED <<none_run, chain>>

NextLogger ==
    \/ LogFrameDetection
    \/ LogStatusChange
    \/ Close
    \/ LoggerTick

\* no supervisor: nobody holds the stop_event of the worker
SupervisorIdle ==
    /\ stop_event = FALSE
    /\ spc = "none"
    /\ join_idx = 0
    /\ sibling = "stopped"
    /\ sup = [stop_called |-> FALSE, joined |-> {}, terminated |-> {},
              alive_at_terminate |-> {}]

RepoIdle ==
    /\ clock = 0
    /\ cache = [k \in Keys |-> NoEntry]
    /\ snapshot = [k \in Keys |-> NoFile]
    /\ backend = [k \in Keys |-> <<>>]
    /\ rpc = "idle"
    /\ call = NoCall
    /\ queried = {}
    /\ inval = NoInval
    /\ callers = [th \in Threads |-> NoCaller]
    /\ cache_lock = "none"
    /\ races = NoRaces

Init ==
    /\ WorkerInit({<<>>, <<"A-01">>, <<"A-01", "A-02">>},
                  {[s \in SeatIds |-> TRUE]}, InitialRows, FALSE, FALSE,
                  MaxTime)
    /\ RepoIdle
    /\ LoggerInit({TRUE})
    /\ SupervisorIdle
    /\ MatcherIdle
    /\ ConnectorIdle

InitBelongings ==
    /\ WorkerInit({<<"A-01">>}, {[s \in SeatIds |-> TRUE]}, InitialRows,
                  TRUE, FALSE, MaxTimeBelongings)
    /\ RepoIdle
    /\ LoggerInit({TRUE})
    /\ SupervisorIdle
    /\ MatcherIdle
    /\ ConnectorIdle

InitRepo ==
    /\ WorkerIdle
    /\ RepoInit({"oryudong:1", "oryudong:2"}, ZoneLists,
                {NoFile, File(<<"A-01">>), Corrupt})
    /\ LoggerInit({TRUE})
    /\ SupervisorIdle
    /\ MatcherIdle
    /\ ConnectorIdle

\* all three keys asked for, a fixed seats table, and invalidation
InitInvalidate ==
    /\ WorkerIdle
    /\ RepoInit(Keys, {<<"A-01">>}, {NoFile})
    /\ LoggerInit({TRUE})
    /\ SupervisorIdle
    /\ MatcherIdle
    /\ ConnectorIdle

\* the worker with its DetectionLogger: seats with and without a ROI, no
\* seat_status rows yet
InitRun ==
    /\ WorkerInit({<<>>, <<"A-01">>, <<"A-01", "A-02">>}, [SeatIds -> BOOLEAN],
                  {NoRecord}, FALSE, FALSE, MaxTimeRun)
    /\ RepoIdle
    /\ LoggerInit({TRUE})
    /\ SupervisorIdle
    /\ MatcherIdle
    /\ ConnectorIdle

\* the worker on a stream whose reads can fail
InitStream ==
    /\ WorkerInit({<<>>, <<"A-01">>, <<"A-01", "A-02">>},
                  {[s \in SeatIds |-> TRUE]}, {NoRecord}, FALSE, TRUE,
                  MaxTimeStream)
    /\ RepoIdle
    /\ LoggerInit({TRUE})
    /\ SupervisorIdle
    /\ MatcherIdle
    /\ ConnectorIdle

\* a DetectionLogger called directly, with frame logging on or off
InitLogger ==
    /\ WorkerAside(MaxLogTime)
    /\ RepoIdle
    /\ LoggerInit(BOOLEAN)
    /\ SupervisorIdle
    /\ MatcherIdle
    /\ ConnectorIdle

NextInvalidate ==
    \/ GetSeatsByChannel
    \/ Fetch
    \/ Store
    \/ Save
    \/ StaleCheck
    \/ Load
    \/ InvalidateCache

Next == NextWorker

Spec == Init /\ [][NextWorker]_vars

SpecBelongings == InitBelongings /\ [][NextWorker]_vars

SpecRepo == InitRepo /\ [][NextRepo]_vars

SpecInvalidate == InitInvalidate /\ [][NextInvalidate]_vars

\* two threads on one repository: two keys asked for, the seats table
\* edited once meanwhile, the clock standing still
InitCallers ==
    /\ WorkerIdle
    /\ RepoInit({"oryudong:1", "oryudong:2"}, {<<"A-01">>}, {NoFile})
    /\ LoggerInit({TRUE})
    /\ SupervisorIdle
    /\ MatcherIdle
    /\ ConnectorIdle

SpecCallers == InitCallers /\ [][NextCallers]_vars

SpecLogger == InitLogger /\ [][NextLogger]_vars

\* flush_interval seconds pass between two calls
LoggerWait ==
    /\ wpc = "done"
    /\ lstep.op # "close"
    /\ now + flush_interval <= time_limit
    /\ now' = now + flush_interval
    /\ lstep' = NoLogStep
    /\ UNCHANGED <<wpc, time_limit, seat_db, channel_seats, roi_polygon, stream_lossy,
                   is_connected, belongings_wired,
                   roi_seats, previous_occupancy, abandoned_timers, occupancy,
                   seat_idx, error_count, step, fed, last_update, obj_run, cycle>>
    /\ UNCHANGED <<detection_logger, detection_events, built, queued>>
    /\ UNCHANGED rvars
    /\ UNCHANGED detect_failed_run
    /\ UNCHANGED xvars
    /\ UNCHANGED exit_from
    /\ UNCHANGED <<none_run, chain>>

\* flush() called at most MaxFlushes times
FlushWithin ==
    /\ built.flush_calls < MaxFlushes
    /\ Flush

\* the logger with flush() called between the other calls and the clock
\* moving by flush_interval
NextAccounting ==
    \/ LogFrameDetection
    \/ LogStatusChange
    \/ FlushWithin
    \/ Close
    \/ LoggerWait

SpecAccounting == InitLogger /\ [][NextAccounting]_vars

SpecRun == InitRun /\ [][NextRun]_vars

SpecStream == InitStream /\ [][NextStream]_vars

\* check_occupancy applied to every configuration and every list of at most
\* MaxDetections detections
InitMatcher ==
    /\ WorkerIdle
    /\ RepoIdle
    /\ LoggerInit({TRUE})
    /\ SupervisorIdle
    /\ MatcherInit(RoiConfigs, DetectionLists(MaxDetections))
    /\ ConnectorIdle

SpecMatcher == InitMatcher /\ [][NextMatcher]_vars

\* an RTSPClient called in any order
InitConnector ==
    /\ WorkerIdle
    /\ RepoIdle
    /\ LoggerInit({TRUE})
    /\ SupervisorIdle
    /\ MatcherIdle
    /\ ConnectorInit

SpecConnector == InitConnector /\ [][NextConnector]_vars

\* two workers under their supervisor, the sibling anywhere in its run()
InitSupervisor ==
    /\ WorkerInit({<<>>, <<"A-01">>}, {[s \in SeatIds |-> TRUE]}, {NoRecord},
                  FALSE, TRUE, MaxTimeStream)
    /\ RepoIdle
    /\ LoggerInit({TRUE})
    /\ SupervisorInit({"start", "loop"})
    /\ MatcherIdle
    /\ ConnectorIdle

SpecSupervisor == InitSupervisor /\ [][NextSupervisor]_vars

\* a pass of the loop that the event budget of the run leaves room for
CaptureFrameWithin ==
    /\ built.detection_frame + Len(roi_seats) <= MaxShutdownEvents
    /\ built.status_change + Len(roi_seats) <= MaxStatusEvents
    /\ CaptureFrame

\* the worker process at work
RunStep ==
    \/ Initialize
    \/ ConnectRtsp
    \/ CaptureFrameWithin
    \/ ProcessSeatLogged
    \/ EndFrame
    \/ Reconnect
    \/ LoopExit
    \/ Finally

\* the worker with its DetectionLogger under a supervisor that can stop it
NextShutdown ==
    \/ RunStep
    \/ Wait
    \/ Stop
    \/ JoinReturns
    \/ JoinTimeout
    \/ JoinTerminated

\* the sibling has ended already
InitShutdown ==
    /\ WorkerInit({<<>>, <<"A-01">>}, {[s \in SeatIds |-> TRUE]}, {NoRecord},
                  FALSE, TRUE, MaxTimeRun)
    /\ RepoIdle
    /\ LoggerInit({TRUE})
    /\ SupervisorInit({"stopped"})
    /\ MatcherIdle
    /\ ConnectorIdle

\* the worker process is scheduled as long as it can take a step
SpecShutdown == InitShutdown /\ [][NextShutdown]_vars /\ WF_vars(RunStep)

----------------------------------------------------------------------------
(* Claims about ChannelWorker.process_frame *)

\* C1 - State-machine idempotence: an iteration of the seat loop emits a
\* status-change event if and only if its new_status differs from the seat's
\* previous status, and an iteration fed the same matcher result as the
\* seat's preceding completed iteration emits no event.
C1_Idempotence ==
    step.seat # "none" =>
        /\ (step.event # "none") <=> (step.new_status # step.prev_status)
        /\ step.repeat => step.event = "none"

\* a repetition of "occupied" right after the iteration that emitted the event
C1_Witness ==
    /\ step.seat # "none"
    /\ step.repeat
    /\ step.new_status = "occupied"
    /\ step.event = "none"

\* the transition table of section 4.3
DocumentedEventType(prev_status, new_status) ==
    IF prev_status = "empty" /\ new_status = "occupied" THEN "person_enter"
    ELSE IF prev_status = "abandoned" /\ new_status = "occupied" THEN "person_enter"
    ELSE IF prev_status = "occupied" /\ new_status = "empty" THEN "person_leave"
    ELSE IF prev_status = "empty" /\ new_status = "abandoned" THEN "abandoned_detected"
    ELSE IF prev_status = "occupied" /\ new_status = "abandoned" THEN "abandoned_detected"
    ELSE IF prev_status = "abandoned" /\ new_status = "empty" THEN "item_removed"
    ELSE "status_change"

DocumentedPairs ==
    { <<"empty", "occupied">>, <<"occupied", "empty">>, <<"empty", "abandoned">>,
      <<"occupied", "abandoned">>, <<"abandoned", "occupied">>,
      <<"abandoned", "empty">> }

\* C2 - Event type derivation: for every pair previous # new the inline table
\* gives the documented event type and status_change for every other pair,
\* it agrees with constants.EVENT_TYPE_MAP on the six documented pairs, and
\* every event the worker emits carries the type of its (previous, new) pair.
C2_EventTypes ==
    /\ \A p \in Statuses \cup {"unknown"}, n \in Statuses :
          p # n => event_type_map(p, n) = DocumentedEventType(p, n)
    /\ \A pair \in DocumentedPairs :
          event_type_map(pair[1], pair[2]) = EVENT_TYPE_MAP(pair[1], pair[2])
    /\ step.event # "none" =>
          step.event = DocumentedEventType(step.prev_status, step.new_status)

\* a previous status outside the three statuses, seeded from the seat_status
\* row, gives status_change
C2_Witness ==
    /\ step.event = "status_change"
    /\ step.prev_status = "unknown"

\* C3 - Abandoned timer: the timer of a seat is snapshot_interval times the
\* number of iterations in a row that saw object without person; such an
\* iteration yields ABANDONED exactly from the 200th on (timer 600), and an
\* iteration with a person sets the timer back to 0.
C3_AbandonedTimer ==
    /\ \A s \in SeatIds : abandoned_timers[s] = snapshot_interval * obj_run[s]
    /\ step.seat # "none" =>
          /\ (step.obj /\ ~step.person) =>
                ((step.new_status = "abandoned") <=> (step.run >= 200))
          /\ step.person => abandoned_timers[step.seat] = 0

\* the 200th iteration in a row with object and no person: timer 600
C3_Witness ==
    /\ step.seat # "none"
    /\ step.run = 200
    /\ step.timer = 600
    /\ step.new_status = "abandoned"
    /\ step.prev_status = "empty"

\* C4 - Vacancy invariant: a status_update with a status other than EMPTY
\* carries vacant_duration_seconds = 0, and between two consecutive EMPTY
\* status_updates of a seat vacant_duration_seconds does not decrease.
C4_Vacancy ==
    step.seat # "none" =>
        /\ step.update.status # "empty" =>
              step.update.vacant_duration_seconds = 0
        /\ (step.update.status = "empty" /\ step.before.status = "empty") =>
              step.update.vacant_duration_seconds
                  >= step.before.vacant_duration_seconds

\* a third EMPTY observation in a row, its duration larger than the second's
C4_Witness ==
    /\ step.seat # "none"
    /\ step.update.status = "empty"
    /\ step.before.status = "empty"
    /\ step.update.vacant_duration_seconds > step.before.vacant_duration_seconds
    /\ step.before.vacant_duration_seconds > 0

\* C5 - Vacancy start: the first EMPTY status_update of a seat after an
\* OCCUPIED or ABANDONED one (or when the seat has no row) has
\* last_empty_time = now and vacant_duration_seconds = 0.
C5_VacancyStart ==
    ( /\ step.seat # "none"
      /\ step.update.status = "empty"
      /\ (step.before.status \in {"occupied", "abandoned"} \/ ~step.db_exists) )
    => /\ step.update.last_empty_time = now
       /\ step.update.vacant_duration_seconds = 0

----------------------------------------------------------------------------
(* Claims about SeatRepository.get_seats_by_channel *)

Age(entry, t) == t - entry.timestamp

FetchFailed == call.tried /\ ~call.fetch_ok

HasZones(data) == data # <<>>

\* C6 - Tier 1: a call that finds an entry of its key younger than 60 s
\* returns that entry's data with no primary fetch, no stale lookup and no
\* snapshot read or write; an entry of age >= 60 s is not served as a fresh
\* hit (the call goes on to the primary fetch).
C6_FreshHit ==
    /\ ( /\ call.returned
         /\ call.entry_at_start.exists
         /\ Age(call.entry_at_start, call.start_time) < 60 )
       => /\ call.result = call.entry_at_start.data
          /\ ~call.tried /\ ~call.fetched /\ ~call.checked_stale
          /\ ~call.snap_read /\ ~call.snap_written
    /\ ( /\ call.returned
         /\ call.entry_at_start.exists
         /\ Age(call.entry_at_start, call.start_time) >= 60 )
       => call.tried

\* a fresh hit that returns data the backend no longer holds
C6_Witness ==
    /\ call.returned
    /\ call.entry_at_start.exists
    /\ Age(call.entry_at_start, call.start_time) = 30
    /\ call.result = call.entry_at_start.data
    /\ call.result # backend[call.key]
    /\ ~call.tried

\* C7 - Serve stale on error: when the primary fetch fails and an entry of
\* the key exists, even an expired one, the call returns that entry's data
\* and does not read the local snapshot.
C7_ServeStale ==
    ( /\ call.returned
      /\ FetchFailed
      /\ cache[call.key].exists )
    => /\ call.checked_stale
       /\ call.result = cache[call.key].data
       /\ ~call.snap_read

\* an expired entry served after a failed fetch, the snapshot holding other data
C7_Witness ==
    /\ call.returned
    /\ FetchFailed
    /\ cache[call.key].exists
    /\ Age(cache[call.key], call.start_time) >= 60
    /\ call.result = <<"A-01", "A-02">>
    /\ snapshot[call.key] = File(<<"A-01">>)

\* C8 - Last tiers: when the primary fetch fails and no entry of the key
\* exists, the call returns the list of the key's snapshot file if the file
\* is present and can be read, and [] otherwise.
C8_LastTiers ==
    ( /\ call.returned
      /\ FetchFailed
      /\ ~cache[call.key].exists )
    => /\ call.snap_read
       /\ IF /\ snapshot[call.key].exists
             /\ snapshot[call.key].readable
             /\ call.read_ok
          THEN call.result = snapshot[call.key].data
          ELSE call.result = <<>>

\* the snapshot of the key returned with no cache entry
C8_Witness ==
    /\ call.returned
    /\ FetchFailed
    /\ ~cache[call.key].exists
    /\ call.snap_read
    /\ call.result = <<"A-01">>

\* a snapshot file of the call's key that holds zones and could be read
SnapshotWithZones ==
    /\ snapshot[call.key].exists
    /\ snapshot[call.key].readable
    /\ HasZones(snapshot[call.key].data)
    /\ call.snap_read => call.read_ok

\* C9 as stated - [] only when every tier is exhausted: whenever the call
\* returns [], there is no fresh entry with zones, the primary fetch yielded
\* no zones, no cached entry with zones exists and no snapshot with zones
\* exists for the key.
C9_EmptyOnlyWhenExhausted ==
    (call.returned /\ call.result = <<>>) =>
        /\ ~(IsFresh(call.entry_at_start, call.start_time)
                /\ HasZones(call.entry_at_start.data))
        /\ ~(call.fetch_ok /\ HasZones(call.data))
        /\ ~(cache[call.key].exists /\ HasZones(cache[call.key].data))
        /\ ~SnapshotWithZones

\* C9 - [] comes from the tier that answered: whenever the call returns [],
\* either a fresh entry held [], or the primary fetch succeeded with no
\* zones, or the fetch failed and the cached entry held [], or the fetch
\* failed, no entry existed and no snapshot with zones could be read.
C9_EmptyFromAnsweringTier ==
    (call.returned /\ call.result = <<>>) =>
        \/ /\ IsFresh(call.entry_at_start, call.start_time)
           /\ ~HasZones(call.entry_at_start.data)
           /\ ~call.tried
        \/ /\ call.fetch_ok
           /\ ~HasZones(call.data)
        \/ /\ FetchFailed
           /\ cache[call.key].exists
           /\ ~HasZones(cache[call.key].data)
        \/ /\ FetchFailed
           /\ ~cache[call.key].exists
           /\ ~SnapshotWithZones

\* a successful fetch of no zones returned while the snapshot holds zones
C9_Witness ==
    /\ call.returned
    /\ call.result = <<>>
    /\ call.fetch_ok
    /\ snapshot[call.key] = File(<<"A-01">>)

CallStep == Fetch \/ Store \/ Save \/ StaleCheck \/ Load

\* C10 - Never raises: whatever fails (client construction, query, snapshot
\* write, snapshot read), the call is never left by an exception, a call in
\* progress can always take its next step, and what it returns is a list.
C10_NeverRaises ==
    /\ rpc # "raised"
    /\ ~call.raised
    /\ rpc # "idle" => ENABLED CallStep
    /\ call.returned => call.result \in ZoneLists

\* the client could not be built and the snapshot could not be read: []
C10_Witness ==
    /\ call.returned
    /\ call.tried
    /\ ~call.client_ok
    /\ call.snap_read
    /\ ~call.read_ok
    /\ snapshot[call.key] = File(<<"A-01">>)
    /\ call.result = <<>>

----------------------------------------------------------------------------
(* Claims about the write-through and the invalidation of SeatRepository *)

\* what a reader of the key's snapshot file gets when reading succeeds
SnapshotList(k) == LoadFallback(snapshot[k], TRUE)

\* C11 as stated - write-through: after every successful primary fetch the
\* key's cache entry holds the fetched list with the time of the fetch, and
\* the key's local snapshot equals the fetched list.
C11_WriteThroughAlways ==
    (call.returned /\ call.fetch_ok) =>
        /\ cache[call.key].exists
        /\ cache[call.key].data = call.data
        /\ cache[call.key].timestamp >= call.start_time
        /\ SnapshotList(call.key) = call.data

\* C11 - write-through of what was fetched: after every successful primary
\* fetch the key's cache entry holds the fetched list with a timestamp taken
\* after the call began; the snapshot file holds the fetched list when that
\* list is not empty and the file could be written; an empty list leaves the
\* file as it was, and a failed write leaves the old file or an unreadable one.
C11_WriteThrough ==
    (call.returned /\ call.fetch_ok) =>
        /\ cache[call.key] \in { Entry(call.data, t) : t \in call.start_time..clock }
        /\ (call.data # <<>> /\ call.write_ok) => snapshot[call.key] = File(call.data)
        /\ (call.data # <<>> /\ ~call.write_ok) =>
               snapshot[call.key] \in {call.snap_before, Corrupt}
        /\ call.data = <<>> =>
               /\ ~call.snap_written
               /\ snapshot[call.key] = call.snap_before

\* a fetched list replaced the other list the snapshot file held
C11_Witness ==
    /\ call.returned
    /\ call.fetch_ok
    /\ call.write_ok
    /\ call.snap_before = File(<<"A-01">>)
    /\ call.data = <<"A-01", "A-02">>
    /\ snapshot[call.key] = File(call.data)
    /\ cache[call.key].data = call.data

\* the entries invalidate_cache(store_id, channel_id) is to remove
Invalidated(store_id, channel_id) ==
    IF store_id = NoStore THEN Keys
    ELSE IF channel_id = None
    THEN { CacheKey(store_id, c) : c \in Channels } \cap Keys
    ELSE { CacheKey(store_id, channel_id) } \cap Keys

\* C12 - Invalidation frame: invalidate_cache(store, channel) removes the
\* entry of that key and leaves every other entry as it was;
\* invalidate_cache(store) removes the entries of that store's keys and
\* leaves those of every other store; invalidate_cache() with no store
\* removes every entry; the snapshot files are the same before and after.
C12_InvalidationFrame ==
    inval.called =>
       /\ \A k \in Keys :
             cache[k] = IF k \in Invalidated(inval.store_id, inval.channel_id)
                        THEN NoEntry ELSE inval.before[k]
       /\ snapshot = inval.files

\* invalidate_cache("oryu") with all three keys cached and a snapshot on disk
C12_Witness ==
    /\ inval.called
    /\ inval.store_id = "oryu"
    /\ inval.channel_id = None
    /\ \A k \in Keys : inval.before[k].exists
    /\ ~cache["oryu:1"].exists
    /\ cache["oryudong:1"].exists
    /\ cache["oryudong:2"].exists
    /\ snapshot["oryu:1"] = File(<<"A-01">>)

----------------------------------------------------------------------------
(* Claims about DetectionLogger *)

\* C13 - Flush trigger: after any log_frame_detection call returns, the
\* pending batch holds fewer than batch_size events, and no event is pending
\* once flush_interval has elapsed since the last flush.
C13_FlushTrigger ==
    /\ lstep.op = "log_frame_detection" =>
          Len(detection_logger.batch) < batch_size
    /\ detection_logger.batch # <<>> =>
          now - detection_logger.last_flush < flush_interval

\* the events a call of the logger had pending when it began, and its own
PendingAt(l) ==
    Range(l.before.batch) \cup
        (IF l.op = "log_frame_detection" /\ l.before.enable_frame_logging
         THEN {l.event} ELSE {})

\* C14 - Flush failure, at most once: a flush hands all the queued events
\* to one bulk write; when the write fails the batch is dropped (nothing
\* stays pending), errors grows by one, total_logged and batch_inserts stay;
\* when it succeeds one row is written for each event and the counters
\* follow; no event ever has more than one row.
C14_FlushFailure ==
    /\ \A e \in Events : detection_events[e] <= 1
    /\ lstep.flushed # {} =>
          /\ lstep.flushed = PendingAt(lstep)
          /\ detection_logger.batch = <<>>
          /\ IF lstep.write_ok
             THEN /\ \A e \in lstep.flushed : detection_events[e] = 1
                  /\ detection_logger.total_logged =
                        lstep.before.total_logged + Cardinality(lstep.flushed)
                  /\ detection_logger.batch_inserts = lstep.before.batch_inserts + 1
                  /\ detection_logger.errors = lstep.before.errors
             ELSE /\ detection_logger.total_logged = lstep.before.total_logged
                  /\ detection_logger.batch_inserts = lstep.before.batch_inserts
                  /\ detection_logger.errors = lstep.before.errors + 1

\* a full batch lost by a failed write after an earlier flush was written
C14_Witness ==
    /\ Cardinality(lstep.flushed) = batch_size
    /\ ~lstep.write_ok
    /\ lstep.before.batch_inserts = 1
    /\ detection_logger.batch = <<>>
    /\ detection_logger.errors = lstep.before.errors + 1

\* C15 - Status-change events are never batched: log_status_change hands
\* its event to one single insert before it returns, the event is never in
\* the pending batch, and the call leaves the batch and the last-flush time
\* as they were.
C15_NeverBatched ==
    /\ \A e \in StatusEvents : e \notin Range(detection_logger.batch)
    /\ lstep.op = "log_status_change" =>
          /\ detection_logger.batch = lstep.before.batch
          /\ detection_logger.last_flush = lstep.before.last_flush
          /\ lstep.flushed = {}
          /\ lstep.wrote \subseteq {lstep.event}
          /\ lstep.write_ok => detection_events[lstep.event] = 1

\* a status change written while frame events wait in a batch that is due
C15_Witness ==
    /\ lstep.op = "log_status_change"
    /\ lstep.write_ok
    /\ Len(detection_logger.batch) >= 2
    /\ now - detection_logger.last_flush >= flush_interval
    /\ detection_events[lstep.event] = 1

----------------------------------------------------------------------------
(* Claims about the run of ChannelWorker *)

\* C16 - Status-change write failure is best effort: when the single insert
\* of log_status_change fails, errors grows by one and nothing is counted as
\* logged, the iteration still moves the seat's previous status to
\* new_status and goes on to the next seat of the frame with error_count
\* untouched, and no event whose write failed is written later.
C16_BestEffortEvent ==
    /\ \A e \in built.lost : detection_events[e] = 0
    /\ (step.seat # "none" /\ lstep.op = "log_status_change" /\ ~lstep.write_ok) =>
          /\ detection_logger.errors = lstep.before.errors + 1
          /\ detection_logger.total_logged = lstep.before.total_logged
          /\ lstep.wrote = {}
          /\ lstep.event \in built.lost
          /\ previous_occupancy[step.seat] = step.new_status
          /\ wpc = "frame"
          /\ error_count = 0
          /\ roi_seats[seat_idx - 1] = step.seat

\* the person_enter event of the first of two seats lost, the second seat next
C16_Witness ==
    /\ step.seat = "A-01"
    /\ step.event = "person_enter"
    /\ lstep.op = "log_status_change"
    /\ ~lstep.write_ok
    /\ detection_logger.errors = 1
    /\ wpc = "frame"
    /\ seat_idx = 2
    /\ Len(roi_seats) = 2

\* no active seat of the channel has a non-empty ROI
ZeroZones == \A i \in 1..Len(channel_seats) : ~roi_polygon[channel_seats[i]]

\* C17 - Initialization fails fast: when the channel has no active seat, or
\* none with a non-empty ROI, the worker never reaches connect_rtsp or the
\* loop, no frame is captured or processed, no seat_status row and no
\* detection event is written or queued, and once initialize() has returned
\* run() is past its try block.
C17_FailFast ==
    ZeroZones =>
        /\ wpc \in {"start", "done", "stopped"}
        /\ ~is_connected
        /\ cycle = "none"
        /\ roi_seats = <<>>
        /\ step = NoStep
        /\ \A s \in SeatIds : last_update[s] = NoUpdate /\ fed[s] = "none"
        /\ built.detection_frame = 0
        /\ built.status_change = 0
        /\ detection_logger.batch = <<>>
        /\ \A e \in Events : detection_events[e] = 0

\* two active seats, neither with a ROI: run() has ended
C17_Witness ==
    /\ channel_seats = <<"A-01", "A-02">>
    /\ \A s \in SeatIds : ~roi_polygon[s]
    /\ wpc = "stopped"
    /\ ~is_connected
    /\ lstep.op = "close"

\* C18 - Reconnection policy: error_count never passes max_errors; when it
\* reaches max_errors the stream has been disconnected and the worker is
\* about to reconnect (or has failed to); a successful reconnection leaves
\* error_count at 0, the stream connected and the worker in its loop; after a
\* failed one the worker is out of the loop for good, with no further pass.
C18_Reconnection ==
    /\ error_count <= max_errors
    /\ error_count = max_errors =>
          /\ wpc \in {"reconnect", "done", "stopped"}
          /\ ~is_connected
    /\ wpc = "reconnect" =>
          /\ error_count = max_errors
          /\ ~is_connected
          /\ cycle = "no_frame"
    /\ cycle = "reconnected" =>
          /\ error_count = 0
          /\ is_connected
          /\ wpc = "loop"
    /\ cycle = "reconnect_failed" =>
          /\ wpc \in {"done", "stopped"}
          /\ ~is_connected

\* a reconnection that succeeded after the worker had processed a frame
C18_Witness ==
    /\ cycle = "reconnected"
    /\ fed["A-01"] # "none"
    /\ error_count = 0
    /\ is_connected
    /\ wpc = "loop"

\* C19 - Telemetry for every zone every cycle: a pass of the loop that
\* captured a frame and ran the detection has, when it ends, queued exactly
\* one frame event for each seat of the worker.
C19_TelemetryEveryZone ==
    cycle \in {"completed", "aborted"} =>
        \A s \in SeatSet(roi_seats) : queued[s] = 1

\* C20 - Per-zone persistence isolation: a pass of the loop that captured a
\* frame and ran the detection ends with every seat of the worker processed
\* and without an error counted, whatever reads and writes of seat_status
\* failed on the way.
C20_ZoneIsolation ==
    cycle \in {"completed", "aborted"} =>
        /\ cycle = "completed"
        /\ seat_idx = Len(roi_seats) + 1
        /\ error_count = 0

----------------------------------------------------------------------------
(* Claims about the abandoned path of the worker as wired *)

\* C30 - Abandoned path is inert without a belongings signal: in the worker
\* as wired every abandoned timer is 0 in every reachable state, no
\* status_update carries ABANDONED and no abandoned_detected event is
\* emitted; a seat seeded ABANDONED from its seat_status row leaves that
\* status in the first iteration that handles it, to OCCUPIED with
\* person_enter or to EMPTY with item_removed.
C30_AbandonedInert ==
    /\ \A s \in SeatIds :
          /\ abandoned_timers[s] = 0
          /\ last_update[s].status # "abandoned"
          /\ previous_occupancy[s] = "abandoned" => fed[s] = "none"
    /\ step.seat # "none" =>
          /\ ~step.obj
          /\ step.update.status # "abandoned"
          /\ step.new_status # "abandoned"
          /\ step.event # "abandoned_detected"
          /\ step.prev_status = "abandoned" =>
                /\ step.before = NoUpdate
                /\ \/ step.new_status = "occupied" /\ step.event = "person_enter"
                   \/ step.new_status = "empty" /\ step.event = "item_removed"
                /\ step.update.status = step.new_status
                /\ previous_occupancy[step.seat] = step.new_status
                /\ step.write_ok => seat_db[step.seat].status = step.new_status

\* a seat whose row said ABANDONED at the start is seen without a person and
\* its row is rewritten as EMPTY
C30_Witness ==
    /\ step.seat # "none"
    /\ step.prev_status = "abandoned"
    /\ step.new_status = "empty"
    /\ step.event = "item_removed"
    /\ step.write_ok
    /\ seat_db[step.seat].status = "empty"

----------------------------------------------------------------------------
(* Claims about the main loop of ChannelWorker.run *)

\* C24 - Inference errors are non-fatal: a pass of the loop whose frame was
\* captured and whose detector call raised leaves the worker in its loop
\* with error_count 1, whatever the number of such passes before it, and
\* neither queues telemetry, nor writes a seat_status row, nor emits an
\* event, nor moves the status of any seat.
C24_InferenceNonFatal ==
    [][ (wpc = "loop" /\ detect_failed_run' = detect_failed_run + 1) =>
           /\ wpc' = "loop"
           /\ cycle' = "detect_failed"
           /\ error_count' = 1
           /\ error_count' < max_errors
           /\ is_connected' = is_connected
           /\ step' = NoStep
           /\ \A s \in SeatIds : queued'[s] = 0
           /\ UNCHANGED <<seat_db, previous_occupancy, abandoned_timers,
                          detection_logger, detection_events, built>> ]_vars

\* the detector raised in two passes in a row, after a pass that queued
\* telemetry, and the worker is still in its loop
C24_Witness ==
    /\ detect_failed_run = MaxDetectFailures
    /\ MaxDetectFailures >= 2
    /\ cycle = "detect_failed"
    /\ wpc = "loop"
    /\ built.detection_frame > 0

----------------------------------------------------------------------------
(* Claims about ROIMatcher.check_occupancy *)

\* the indices of the detections whose bottom-center ((x1+x2)/2, y2) is
\* inside the polygon
InsideIndices(polygon) ==
    { k \in 1..Len(detections) :
        point_in_polygon(<<detections[k][1] + detections[k][3],
                           2 * detections[k][4]>>, polygon) }

Least(S) == CHOOSE k \in S : \A j \in S : k <= j

\* C27 - Polygon zone matching: a polygon seat is occupied iff the
\* bottom-center of some detection is inside the polygon by ray casting;
\* then max_iou is 1.0 and matched_detection is the detection of the
\* earliest such index; otherwise the status is empty, max_iou is 0.0 and
\* matched_detection is none.
C27_PolygonMatching ==
    matched =>
        \A i \in 1..Len(matcher_seats) :
            LET seat == matcher_seats[i]
                r == results[seat.id]
                inside == InsideIndices(seat.roi)
            IN seat.type = "polygon" =>
                 /\ (r.status = "occupied") <=> (inside # {})
                 /\ r.status \in {"occupied", "empty"}
                 /\ inside # {} =>
                       /\ Eq(r.max_iou, One)
                       /\ r.matched_detection = detections[Least(inside)]
                 /\ inside = {} =>
                       /\ Eq(r.max_iou, Zero)
                       /\ r.matched_detection = NoDetection

\* two detections stand in the polygon and one, before them in the list,
\* outside of it: the earlier of the two is the matched one
C27_Witness ==
    /\ matched
    /\ Len(matcher_seats) = 2
    /\ Len(detections) = 3
    /\ matcher_seats[1].type = "polygon"
    /\ Cardinality(InsideIndices(matcher_seats[1].roi)) = 2
    /\ Least(InsideIndices(matcher_seats[1].roi)) = 2
    /\ detections[2] # detections[3]
    /\ results[matcher_seats[1].id].status = "occupied"
    /\ results[matcher_seats[1].id].matched_detection = detections[2]

\* IoU of the detection of index k with the seat's rectangle
IouOf(k, seat_box) == calculate_iou(SubSeq(detections[k], 1, 4), seat_box)

\* the indices of the detections whose IoU is over the threshold
Exceeding(seat_box) ==
    { k \in 1..Len(detections) : Gt(IouOf(k, seat_box), iou_threshold) }

\* C28 - Rectangle zone matching: a rectangle seat is occupied iff the IoU
\* of some detection with its rectangle is strictly over iou_threshold;
\* max_iou is the largest IoU among the detections up to and including the
\* first one over the threshold (all of them when the seat is empty), and
\* matched_detection is that first one.
C28_RectangleMatching ==
    matched =>
        \A i \in 1..Len(matcher_seats) :
            LET seat == matcher_seats[i]
                r == results[seat.id]
                over == Exceeding(seat.roi)
                upto == IF over # {} THEN 1..Least(over) ELSE 1..Len(detections)
            IN seat.type \in {"rectangle", "missing"} =>
                 /\ (r.status = "occupied") <=> (over # {})
                 /\ r.status \in {"occupied", "empty"}
                 /\ \A k \in upto : ~Gt(IouOf(k, seat.roi), r.max_iou)
                 /\ \/ \E k \in upto : Eq(IouOf(k, seat.roi), r.max_iou)
                    \/ Eq(r.max_iou, Zero)
                 /\ r.matched_detection =
                       IF over # {} THEN detections[Least(over)] ELSE NoDetection

\* the seat is occupied by the second detection, a later one has a larger
\* IoU than the reported one, and an earlier one met the rectangle without
\* reaching the threshold
C28_Witness ==
    /\ matched
    /\ Len(matcher_seats) = 1
    /\ matcher_seats[1].type = "rectangle"
    /\ Least(Exceeding(matcher_seats[1].roi) \cup {Len(detections) + 1}) = 2
    /\ Len(detections) = 3
    /\ Gt(IouOf(1, matcher_seats[1].roi), Zero)
    /\ Gt(IouOf(3, matcher_seats[1].roi), results[matcher_seats[1].id].max_iou)
    /\ results[matcher_seats[1].id].status = "occupied"
    /\ results[matcher_seats[1].id].matched_detection = detections[2]

\* C29 - End-to-end two-zone scenario: with the polygons A-01 and A-02 of
\* the test fixture and its two detections, check_occupancy reports A-01
\* occupied and A-02 empty; the bottom-center of the first detection,
\* (150, 200), lies on the bottom edge of A-01 and point_in_polygon counts
\* it as inside.
C29_TwoZoneScenario ==
    (matched /\ matcher_seats = FixtureConfig /\ detections = FixtureDetections) =>
        /\ results["A-01"].status = "occupied"
        /\ results["A-02"].status = "empty"
        /\ results["A-01"].matched_detection = FixtureDetections[1]
        /\ FixtureDetections[1][1] + FixtureDetections[1][3] = 2 * 150
        /\ FixtureDetections[1][4] = 200
        /\ PolygonA01[3][2] = 200 /\ PolygonA01[4][2] = 200
        /\ PolygonA01[4][1] <= 150 /\ 150 <= PolygonA01[3][1]
        /\ point_in_polygon(<<2 * 150, 2 * 200>>, PolygonA01)

\* check_occupancy has run on the fixture
C29_Witness ==
    /\ matched
    /\ matcher_seats = FixtureConfig
    /\ detections = FixtureDetections
    /\ DOMAIN results = {"A-01", "A-02"}
    /\ results["A-01"].status = "occupied"
    /\ results["A-02"].max_iou = Zero

----------------------------------------------------------------------------
(* Claims about RTSPClient *)

\* C25 - connect: TCP is tried first and UDP only after TCP failed, each at
\* most once; connect returns True iff the last protocol tried opened and
\* gave a frame on its test read (an opened capture without a frame is a
\* failure); no opened capture of a failed attempt is held when the next
\* attempt starts or when connect returns False.
C25_Connect ==
    conn.op = "connect" =>
        LET a == conn.attempts
            n == Len(a)
        IN /\ n \in {1, 2}
           /\ a[1].protocol = "tcp"
           /\ n = 2 => (a[2].protocol = "udp" /\ a[1].outcome # "frame")
           /\ n = 1 => a[1].outcome = "frame"
           /\ \A i \in 1..n : a[i].outcome = "frame" => i = n
           /\ (conn.returned = "true") <=> (a[n].outcome = "frame")
           /\ conn.returned \in {"true", "false"}
           /\ conn.returned = "true" =>
                 (cap = "opened" /\ is_connected /\ handles = 1)
           /\ n = 2 => a[2].held = 0
           /\ conn.returned = "false" => (handles = 0 /\ cap # "opened")

\* TCP opened without a frame, UDP opened with one
C25_Witness ==
    /\ conn.op = "connect"
    /\ Len(conn.attempts) = 2
    /\ conn.attempts[1].outcome = "no_frame"
    /\ conn.attempts[2].outcome = "frame"
    /\ conn.returned = "true"
    /\ is_connected

\* C26 - disconnect is idempotent and always safe: from any state of the
\* client disconnect leaves cap None, is_connected False and no opened
\* capture; a second disconnect changes nothing, and capture_frame after a
\* disconnect returns None.
C26_Disconnect ==
    /\ conn.op = "disconnect" =>
          /\ cap = NoCap
          /\ ~is_connected
          /\ handles = 0
    /\ (conn.op = "disconnect" /\ conn.prev_op = "disconnect") =>
          conn.before = ThisClient
    /\ (conn.op = "capture_frame" /\ conn.prev_op = "disconnect") =>
          /\ conn.returned = "none"
          /\ conn.before = Client(NoCap, FALSE, 0)
          /\ ThisClient = conn.before

\* disconnect after a connect that failed while is_connected still stood
\* from an earlier connect
C26_Witness ==
    /\ conn.op = "disconnect"
    /\ conn.prev_op = "connect"
    /\ conn.before = Client(NoCap, TRUE, 0)
    /\ ThisClient = Client(NoCap, FALSE, 0)

----------------------------------------------------------------------------
(* Claims about shutdown and the supervisor *)

\* the worker process has ended, by the return of run() or by a signal
Ended == wpc \in {"stopped", "killed"}

\* nothing pending in the batch and the stream released
CleanedUp == Len(detection_logger.batch) = 0 /\ ~is_connected

OutOfLoop == wpc \in {"done", "stopped", "killed"}

\* C21 as stated: once the stop event is set the worker eventually leaves
\* its loop, and whenever the worker process has ended, on whatever path,
\* its batch is empty and its stream released.
C21_EveryEndCleanedUp ==
    /\ [](Ended => CleanedUp)
    /\ (stop_event ~> OutOfLoop)

\* C21 amended: once the stop event is set the worker eventually leaves its
\* loop; every return of run() (the event seen at the loop head, initialize
\* returning False, the first connection failing, a reconnection failing)
\* comes after the close of the logger with an empty batch left and the
\* stream released; only a worker terminated by stop() ends without that
\* close, whatever its batch holds.
C21_Shutdown ==
    /\ [](wpc = "stopped" => CleanedUp /\ lstep.op = "close")
    /\ [](wpc = "killed" => 1 \in sup.terminated /\ exit_from = "terminated")
    /\ (stop_event ~> OutOfLoop)

\* the event seen at the loop head, and the close flushed pending events
C21_Witness ==
    /\ wpc = "stopped"
    /\ exit_from = "loop"
    /\ stop_event
    /\ lstep.op = "close"
    /\ lstep.flushed # {}
    /\ CleanedUp

\* C22: stop() sets the stop event before it joins any process, joins every
\* process, terminates only a process alive after its join, and when it has
\* returned no worker process is alive.
C22_StopOrdering ==
    /\ spc \in {"join", "terminated", "returned"} => stop_event
    /\ spc = "returned" => sup.joined = DOMAIN processes
    /\ sup.terminated \subseteq sup.alive_at_terminate
    /\ spc = "returned" => \A i \in DOMAIN processes : ~IsAlive(processes[i])

\* run() of the followed worker leaves for a reason of its own, not on a
\* signal of terminate()
WorkerFails ==
    /\ wpc' = "done"
    /\ wpc \in {"start", "connect", "reconnect"}
    /\ exit_from' = wpc

SiblingFails ==
    /\ sibling' = "done"
    /\ sibling \in {"start", "connect", "reconnect"}
    /\ sup'.terminated = sup.terminated

\* C23: the step by which a worker gives up (no zones or no seats at
\* initialize, first connection failed, reconnection failed) changes
\* neither the stop event nor the other worker nor the supervisor; the stop
\* event is set by a call of stop() only; and wait() goes on to the next
\* process, returning only when every process has ended.
C23_FailureIsolation ==
    /\ [][WorkerFails =>
            UNCHANGED <<stop_event, sibling, spc, join_idx, sup>>]_vars
    /\ [][SiblingFails =>
            UNCHANGED <<stop_event, wpc, spc, join_idx, sup>>]_vars
    /\ [](stop_event => sup.stop_called)
    /\ [](spc = "finished" =>
            \A i \in DOMAIN processes : ~IsAlive(processes[i]))
    /\ [](spc = "wait" =>
            \A i \in 1..(join_idx - 1) : ~IsAlive(processes[i]))

\* the followed worker gave up on its reconnection, wait() moved on to the
\* sibling, which is in its loop
C23_Witness ==
    /\ wpc = "stopped"
    /\ exit_from = "reconnect"
    /\ sibling = "loop"
    /\ spc = "wait"
    /\ join_idx = 2
    /\ ~stop_event

----------------------------------------------------------------------------
(* Claims about the occupancy states over a run *)

\* iterations with object and no person it takes the timer to reach the
\* threshold: ceil(600 / snapshot_interval)
CyclesNeeded ==
    (ABANDONED_THRESHOLD_SECONDS + snapshot_interval - 1) \div snapshot_interval

\* C31 - ABANDONED needs an uninterrupted run: an iteration yields ABANDONED
\* only when it and the CyclesNeeded - 1 iterations of the seat before it,
\* all in this run of the worker, saw object and no person; an iteration
\* with a person, or with neither person nor object, leaves the timer at 0
\* and the count of the run at 0, and the first object-only iteration after
\* it starts from snapshot_interval again.
C31_UninterruptedRun ==
    step.seat # "none" =>
       /\ step.new_status = "abandoned" =>
             /\ step.obj /\ ~step.person
             /\ step.run >= CyclesNeeded
       /\ (step.person \/ ~step.obj) =>
             /\ step.timer = 0
             /\ step.run = 0
             /\ abandoned_timers[step.seat] = 0
             /\ step.new_status # "abandoned"
       /\ (step.obj /\ ~step.person /\ step.timer_before = 0) =>
             /\ step.run = 1
             /\ step.timer = snapshot_interval

\* 199 object-only iterations in a row, then one that sees nothing: the
\* timer goes from 597 back to 0
C31_Witness ==
    /\ step.seat # "none"
    /\ step.timer_before = ABANDONED_THRESHOLD_SECONDS - snapshot_interval
    /\ ~step.person
    /\ ~step.obj
    /\ step.timer = 0
    /\ step.new_status = "empty"

\* C32 - Consecutive-error counter: a captured frame leaves error_count at 0
\* when its processing starts, the worker goes to reconnect only after
\* max_errors captures in a row returned None, and error_count stays within
\* 0..max_errors.
C32_ErrorCounter ==
    /\ error_count \in 0..max_errors
    /\ cycle = "running" => error_count = 0
    /\ wpc = "reconnect" => none_run >= max_errors

C36_EventChain ==
    /\ [](wpc = "connect" =>
            \A s \in SeatSet(roi_seats) : chain[s] = SeedStatus(seat_db[s]))
    /\ [][(wpc = "frame" /\ seat_idx' = seat_idx + 1 /\ step'.event # "none") =>
             /\ step'.prev_status = chain[step'.seat]
             /\ chain'[step'.seat] = step'.new_status]_vars

\* a second event of a seat whose row, left abandoned by a former run, has
\* never been written by this one: person_enter, then person_leave
C36_Witness ==
    /\ step.seat # "none"
    /\ step.event = "person_leave"
    /\ step.prev_status = "occupied"
    /\ ~step.write_ok
    /\ seat_db[step.seat] = Row("abandoned", None, 0)
    /\ chain[step.seat] = "empty"

C33_NoMidFramePreemption ==
    (stop_event /\ wpc \in {"done", "stopped", "killed"}) =>
       cycle \notin {"running", "aborted"}

(* Claims about the logger's accounting *)

\* the events submitted so far, by kind
SubmittedFrames == { <<"detection_frame", n>> : n \in 1..built.detection_frame }
SubmittedStatus == { <<"status_change", n>> : n \in 1..built.status_change }

\* the events that have a row in detection_events
WrittenEvents == { e \in Events : detection_events[e] > 0 }

\* C38: after any sequence of log_frame_detection, log_status_change, flush
\* and close calls every submitted frame event is in exactly one of: the
\* pending batch, the table (written once), the events a failed flush
\* dropped; a status-change event is either written once or was dropped by
\* its failed insert and is never in the batch; no other event is anywhere;
\* total_logged is the number of events written, batch_inserts the number of
\* successful bulk inserts, errors the number of failed bulk inserts plus
\* failed single inserts, and pending_batch the length of the batch.
C38_Accounting ==
    LET dl == detection_logger
        pending == Range(dl.batch)
        dropped == built.lost
        stats == get_stats(dl)
    IN /\ pending \cup (WrittenEvents \cap FrameEvents) \cup (dropped \cap FrameEvents)
            = SubmittedFrames
       /\ pending \cap WrittenEvents = {}
       /\ pending \cap dropped = {}
       /\ WrittenEvents \cap dropped = {}
       /\ Cardinality(pending) = Len(dl.batch)
       /\ \A e \in Events : detection_events[e] <= 1
       /\ (WrittenEvents \cap StatusEvents) \cup (dropped \cap StatusEvents)
            = SubmittedStatus
       /\ stats.total_logged = Cardinality(WrittenEvents)
       /\ stats.batch_inserts = built.bulk_ok
       /\ stats.errors = built.bulk_failed + built.single_failed
       /\ stats.pending_batch = Len(dl.batch)

\* C38 witness: a flush() call has just failed and dropped its batch, after
\* a bulk insert that succeeded, a status-change event that was written and
\* one whose insert failed
C38_Witness ==
    /\ lstep.op = "flush"
    /\ lstep.flushed # {}
    /\ ~lstep.write_ok
    /\ built.lost \cap FrameEvents # {}
    /\ WrittenEvents \cap FrameEvents # {}
    /\ WrittenEvents \cap StatusEvents # {}
    /\ built.bulk_ok >= 1
    /\ built.single_failed >= 1

(* Claims about the client's state over a sequence of calls *)

\* C39 - after any sequence of connect, capture_frame and disconnect calls
\* is_connected is true iff the client holds an opened capture (the one of
\* the latest connect that returned True); a connect that returned False
\* leaves is_connected false; at most one opened capture is held; the
\* capture a connect replaces counts as held no longer.
C39_StateConsistency ==
    /\ is_connected <=> (cap = "opened" /\ handles = 1)
    /\ (conn.op = "connect" /\ conn.returned = "false") => ~is_connected
    /\ handles <= 1
    /\ (conn.op = "connect" /\ conn.returned = "true") => handles = 1

(* Claims about the repository called from several threads *)

\* the step of the thread that holds the lock
HolderStep(th) ==
    \/ CallerChecks(th)
    \/ CallerStores(th)
    \/ CallerChecksStale(th)
    \/ InvalidatorClears(th)

\* C34 - the cache lock is held only inside a map read or update (the check
\* of the entry, the cache update, the stale lookup, the body of
\* invalidate_cache), each of them under the lock, and never while the
\* holder's query, snapshot write or snapshot read is in progress; the
\* holder can always finish its block, so a caller waits for the lock no
\* longer than one map access whatever queries are in flight; and while a
\* call is in progress some thread can always take a step (no deadlock
\* between get_seats_by_channel and invalidate_cache).
C34_Locking ==
    /\ cache_lock \in Threads \cup {"none"}
    /\ \A th \in Threads :
          /\ cache_lock = th <=> callers[th].pc \in LockedPcs
          /\ callers[th].pc \in {"fetch", "save", "load"} => cache_lock # th
          /\ cache_lock = th => ENABLED HolderStep(th)
          /\ (callers[th].pc \in WaitingPcs /\ cache_lock = "none") =>
                ENABLED CallerLocks(th)
    /\ (\E th \in Threads : callers[th].pc # "idle") =>
          ENABLED (\E th \in Threads : CallerStep(th))

\* C34 witness: a thread got a fresh entry while the other thread's query
\* was in flight, and that query is still in flight
C34_Witness ==
    \E th \in Threads, other \in Threads :
        /\ th # other
        /\ callers[th].returned = "hit"
        /\ callers[th].beside_fetch
        /\ callers[th].pc = "idle"
        /\ callers[other].pc = "fetch"
        /\ callers[other].key # callers[th].key

\* a cache hit is served from a query made after the latest
\* invalidate_cache(store_id, channel_id) of its key that returned
HitAfterInvalidation ==
    \A th \in Threads :
        callers[th].returned = "hit" =>
            callers[th].served > callers[th].served_inval

\* the entry of a key is never replaced by the data of an earlier query
NoOlderOverwrite ==
    \A k \in Keys :
        (cache[k].exists /\ cache'[k].exists) =>
            races'.entry_fetch[k] >= races.entry_fetch[k]

\* C40 - once invalidate_cache(store_id, channel_id) has returned, a later
\* get_seats_by_channel of that key never returns as a fresh cache hit data
\* that was queried before the invalidation, under every interleaving of
\* the threads; and a query made earlier never overwrites the cache entry
\* written from a query made later.
C40_InvalidationVsFetch ==
    /\ []HitAfterInvalidation
    /\ [][NoOlderOverwrite]_vars

====
